---- MODULE Spec2Model ----
(***************************************************************************)
(* A model of SandboxManager (src/src/sandbox-manager.ts).                 *)
(*                                                                         *)
(* The manager runs on one JavaScript event loop.  A call of an async      *)
(* method runs synchronously up to its first await; every await of a       *)
(* driver (dockerode) call suspends it, the driver acts at some later      *)
(* moment, and the method's continuation runs at some moment after that.   *)
(* Every such moment is one step of the model, so that calls on the same   *)
(* sandbox interleave exactly at the awaits of the code.                   *)
(*                                                                         *)
(* A SandboxInfo is a heap object: the Map `sandboxes` holds a reference   *)
(* to it, and so does the local variable `sandbox` of every call that      *)
(* looked it up.  The model keeps the objects in `info` and the Map's key  *)
(* set in `sandboxes`; an object survives sandboxes.delete.                *)
(*                                                                         *)
(* The module also holds the stale sweeps of the SandboxManager and of the *)
(* BrowserSandboxManager (src/CONTRIBUTING.md), with shutdown, and the     *)
(* handlers executeInSandbox attaches to the exec stream, which decode the *)
(* engine's frames chunk by chunk.                                         *)
(***************************************************************************)
EXTENDS Integers, FiniteSets, Sequences, Bags, TLC

\* Bounds of the model.
MaxIds == 1      \* sandbox ids the manager issues
MaxTasks == 2    \* calls of manager methods whose promise is not yet consumed
MaxCalls == 3    \* calls of manager methods made by callers in one behaviour
StopCap == 2     \* the count of driver stop calls per sandbox saturates here
MaxStale == 2    \* entries of one registry when the managers are left to their schedulers
MaxNow == 1      \* milliseconds the clock Date.now() advances in one behaviour
Radix == 2       \* values the digits Math.random() contributes to an id range over

Ids == 1..MaxIds
StaleIds == 1..MaxStale

VARIABLES
    sandboxes,   \* key set of the Map this.sandboxes
    info,        \* the SandboxInfo object of every id issued so far
    nextId,      \* number of ids generateId has issued
    container,   \* driver side: state of the container named sandbox-<id>
    timers,      \* ids whose auto-cleanup setTimeout is pending
    task,        \* bag of the calls in flight: method, sandbox id, await position
    cleaned,     \* history: ids for which a cleanupSandbox call resolved
    stopCalls,   \* history: number of container.stop calls issued per id
    calls,       \* history: number of calls callers have made
    cleanupInterval, \* the field this.cleanupInterval: undefined, a live interval, a cleared one
    intervals,   \* number of live setInterval timers of startCleanupScheduler
    aged,        \* sandbox ids whose age (now - createdAt) exceeds config.timeout || 300000
    manager,     \* the manager a behaviour exercises; the two managers share no state
    contexts,    \* BrowserSandboxManager: keys of the Map this.contexts, in insertion order
    contextStatus, \* BrowserSandboxManager: ManagedContext.status of every context id issued
    nextContext, \* BrowserSandboxManager: number of ids generateContextId has issued
    idle,        \* context ids whose idle time (now - lastAccessedAt) exceeds contextMaxAge
    browsers,    \* BrowserSandboxManager: keys of the Map this.browsers
    isInitialized, \* BrowserSandboxManager.isInitialized
    cleanupTimer,  \* BrowserSandboxManager: is the interval of this.cleanupTimer live
    sweep,       \* BrowserSandboxManager: position of the cleanupStaleContexts in progress
    stream,      \* executeInSandbox: the exec stream of one call, chunks still to be delivered
    stdout,      \* executeInSandbox: the local variable stdout of that call
    stderr,      \* executeInSandbox: the local variable stderr of that call
    pages,       \* BrowserSandboxManager: keys of ManagedContext.pages, in insertion order
    nextPage,    \* BrowserSandboxManager: number of ids generatePageId has issued
    open,        \* engine side: the contexts the engine holds open
    openPages,   \* engine side: the pages it holds open, as <<context id, page id>>
    now,         \* Date.now(), in milliseconds since the manager was constructed
    response,    \* MCPSandboxServer: the result the CallTool handler returned last
    connected    \* MCPSandboxServer: server.connect(transport) has resolved

\* The state of the SandboxManager's scheduler with the clock, and of the
\* BrowserSandboxManager.
scheduler == <<cleanupInterval, intervals, aged, now>>
browser == <<contexts, contextStatus, nextContext, idle, browsers, isInitialized, cleanupTimer, sweep>>
\* The state of the stream handlers of one executeInSandbox call.
output == <<stream, stdout, stderr>>
\* The pages of the browser manager's contexts, and the engine's contexts.
tabs == <<pages, nextPage, open, openPages>>
\* The MCP server: the manager a behaviour exercises and the result its
\* tool handler returned last.
server == <<manager, response, connected>>
beyond == <<scheduler, server, browser, output, tabs>>
\* The state of the SandboxManager that no method of the browser manager reads.
sandbox == <<sandboxes, info, nextId, container, timers, cleaned, stopCalls, scheduler>>
vars == <<sandboxes, info, nextId, container, timers, task, cleaned, stopCalls, calls,
          cleanupInterval, intervals, aged, manager, contexts, contextStatus, nextContext,
          idle, browsers, isInitialized, cleanupTimer, sweep, stream, stdout, stderr,
          pages, nextPage, open, openPages, now, response, connected>>

-----------------------------------------------------------------------------
\* SandboxInfo.containerId is optional: 0 stands for undefined.  The driver
\* handle of sandbox id is the container the driver made for it, written id.
NoContainer == 0

\* SandboxStatus
SandboxStatus == {"creating", "running", "paused", "stopped", "error"}

\* The defaults of createSandbox.
DefaultConfig ==
    [image |-> <<"node:20-alpine">>,
     memoryLimit |-> <<"5", "1", "2", "m">>,
     cpuLimit |-> 1,
     timeout |-> 300000,
     autoRemove |-> TRUE]

\* A faulty merge, { ...config, ...defaults }: the defaults win.
MergeConfig_DefaultsWin(config) ==
    [f \in (DOMAIN DefaultConfig) \cup (DOMAIN config) |->
        IF f \in DOMAIN DefaultConfig THEN DefaultConfig[f] ELSE config[f]]
\* { ...defaults, ...config }: every field of config overrides the default.
MergeConfig(config) ==
    [f \in (DOMAIN DefaultConfig) \cup (DOMAIN config) |->
        IF f \in DOMAIN config THEN config[f] ELSE DefaultConfig[f]]

\* Names and configs a caller passes to createSandbox.
CallerNames == {"limits-test"}
NoFields == [f \in {} |-> TRUE]
CallerConfigs ==
    { NoFields,
      [autoRemove |-> FALSE],
      [timeout |-> 0],
      [memoryLimit |-> <<"5", "1", "2", "m", "b">>] }

\* parseMemoryLimit: /^(\d+)([bkmg])$/ on the lower-cased string, then
\* parseInt(value) * units[unit].  ParseError stands for the thrown Error.
ParseError == -1
Digits == <<"0", "1", "2", "3", "4", "5", "6", "7", "8", "9">>
IsDigit(c) == \E i \in 1..10 : Digits[i] = c
DigitValue(c) == (CHOOSE i \in 1..10 : Digits[i] = c) - 1
ToLower(c) ==
    CASE c = "B" -> "b" [] c = "K" -> "k" [] c = "M" -> "m" [] c = "G" -> "g"
      [] OTHER -> c
UnitFactor(u) ==
    CASE u = "b" -> 1 [] u = "k" -> 1024 [] u = "m" -> 1024 * 1024
      [] u = "g" -> 1024 * 1024 * 1024

RECURSIVE ParseInt(_)
ParseInt(s) ==
    IF Len(s) = 0 THEN 0
    ELSE 10 * ParseInt(SubSeq(s, 1, Len(s) - 1)) + DigitValue(s[Len(s)])

ParseMemoryLimit(limit) ==
    LET n == Len(limit)
        unit == ToLower(limit[n])
    IN  IF /\ n >= 2
           /\ \A i \in 1..(n - 1) : IsDigit(limit[i])
           /\ unit \in {"b", "k", "m", "g"}
        THEN ParseInt(SubSeq(limit, 1, n - 1)) * UnitFactor(unit)
        ELSE ParseError

-----------------------------------------------------------------------------
\* Task records.  pc names the driver call the method is awaiting; out is the
\* driver's answer once it has acted; res is how the method's promise settled.
\* h is the container the awaited call addresses (docker.getContainer(containerId)).
\* todo and seen are the position of a loop of the browser manager: the
\* context ids shutdown has still to close, the pages the loop of closeContext
\* over pages.entries() has visited.
Await(op, id, h, pc) ==
    [op |-> op, id |-> id, h |-> h, pc |-> pc, out |-> "pending", res |-> "none",
     todo |-> << >>, seen |-> {}]
Settled(op, id, res) ==
    [op |-> op, id |-> id, h |-> NoContainer, pc |-> "done", out |-> "none", res |-> res,
     todo |-> << >>, seen |-> {}]

\* The calls in flight, and the bag with call r replaced by call s.
InFlight == BagToSet(task)
Put(b, r) == b (+) SetToBag({r})
Drop(b, r) == b (-) SetToBag({r})
Become(r, s) == Put(Drop(task, r), s)

\* A caller makes a call.
Call ==
    /\ BagCardinality(task) < MaxTasks
    /\ calls < MaxCalls
    /\ calls' = calls + 1

\* The continuation of call r after the driver answered its call `pc`.
Answered(r, op, pc) ==
    /\ r \in InFlight
    /\ r.op = op
    /\ r.pc = pc
    /\ r.out \in {"ok", "fail"}

\* Call r awaits the driver call `pc`, which changes no container: the
\* engine's answer and the continuation that reads it are one step.
Awaiting(r, op, pc) ==
    /\ r \in InFlight
    /\ r.op = op
    /\ r.pc = pc
    /\ r.out = "pending"

\* cleanupSandbox is called by callers and by the auto-cleanup timer (calls
\* "cleanup"), by cleanupStaleSandboxes ("cleanup/stale") and by shutdown
\* ("cleanup/shutdown"); the latter two wait for their calls with Promise.all.
CleanupOps == {"cleanup", "cleanup/stale", "cleanup/shutdown"}
\* The id field of a call that addresses no sandbox.
NoId == 0
\* Bag b without the calls of method op.
Without(b, op) == [r \in { x \in DOMAIN b : x.op # op } |-> b[r]]
\* await Promise.all(ids.map(id => this.cleanupSandbox(id).catch(console.error)))
\* in method `parent`: once every one of its cleanupSandbox calls has settled,
\* the method runs to its end in the same turn of the event loop.
AllSettled(b, parent, child) ==
    IF /\ Await(parent, NoId, NoContainer, "all") \in DOMAIN b
       /\ \A r \in DOMAIN b : r.op = child => r.pc = "done"
      THEN Put(Without(Drop(b, Await(parent, NoId, NoContainer, "all")), child),
               Settled(parent, NoId, "ok"))
      ELSE b
PromiseAll(b) ==
    AllSettled(AllSettled(b, "cleanupStaleSandboxes", "cleanup/stale"),
               "shutdown", "cleanup/shutdown")

NoInfo == [id |-> NoId, name |-> "", status |-> "none", createdAt |-> 0,
           containerId |-> NoContainer, config |-> NoFields]

\* The sweep of the browser manager when none is in progress.
NoSweep == [pc |-> "none", contextId |-> 0, stale |-> {}, warned |-> {}]

\* The exec stream when no executeInSandbox call listens to one.
NoStream == [pc |-> "none", written |-> << >>, tty |-> FALSE, format |-> "none",
             chunks |-> << >>, exitCode |-> 0]

\* The handler has returned nothing yet.
NoResponse == [isError |-> FALSE, text |-> << >>]

\* The two managers after construction, able to issue the ids `ids`.
Constructed(ids) ==
    /\ sandboxes = {}
    /\ info = [i \in ids |-> NoInfo]
    /\ nextId = 0
    /\ container = [i \in ids |-> "none"]
    /\ timers = {}
    /\ task = EmptyBag
    /\ cleaned = {}
    /\ stopCalls = [i \in ids |-> 0]
    /\ calls = 0
    /\ cleanupInterval = "undefined"
    /\ intervals = 0
    /\ aged = {}
    /\ contexts = << >>
    /\ contextStatus = [c \in ids |-> "none"]
    /\ nextContext = 0
    /\ idle = {}
    /\ browsers = {}
    /\ isInitialized = FALSE
    /\ cleanupTimer = FALSE
    /\ sweep = NoSweep
    /\ stdout = << >>
    /\ stderr = << >>
    /\ pages = [c \in ids |-> << >>]
    /\ nextPage = 0
    /\ open = {}
    /\ openPages = {}
    /\ now = 0
    /\ response = NoResponse
    /\ connected = FALSE

Init ==
    /\ Constructed(Ids)
    /\ stream = NoStream
    /\ manager = "SandboxManager"

\* The container engine.  A call addressed to container c is served when the
\* container's state allows it, and may fail for reasons of the engine's own.
DriverPermits(call, c) ==
    /\ c # NoContainer
    /\ CASE call = "createContainer" -> container[c] = "none"
         [] call = "start" -> container[c] = "created"
         [] call \in {"exec", "execStart"} -> container[c] = "running"
         [] call = "stream" -> TRUE
         [] call = "inspect" -> container[c] \in {"running", "paused", "exited"}
         [] call = "pause" -> container[c] = "running"
         [] call = "unpause" -> container[c] = "paused"
         [] call = "stop" -> container[c] \in {"running", "paused"}
         [] call = "remove" -> container[c] \in {"created", "running", "paused", "exited"}
         [] call = "stats" -> container[c] \in {"created", "running", "paused", "exited"}

\* The state of container c after the engine served the call.  A container
\* created with HostConfig.AutoRemove is removed by the engine when it stops.
DriverEffect(call, c) ==
    CASE call = "createContainer" -> "created"
      [] call = "start" -> "running"
      [] call = "pause" -> "paused"
      [] call = "unpause" -> "running"
      [] call = "stop" -> IF info[c].config.autoRemove THEN "removed" ELSE "exited"
      [] call = "remove" -> "removed"
      [] OTHER -> container[c]

\* getSandbox / listSandboxes
getSandbox(id) == IF id \in sandboxes THEN info[id] ELSE NoInfo
listSandboxes == { info[id] : id \in sandboxes }

-----------------------------------------------------------------------------
\* generateId: `sb_${Date.now()}_${digits}`, digits being nine base-36 digits
\* of Math.random().  The string is written as the number that the pair
\* (time, digits) determines; 0 stays free for NoContainer.
generateId(time, digits) == time * Radix + digits + 1
RandomDigits == 0..(Radix - 1)
\* The k-th id of a manager whose draws (Date.now(), digits) never repeat is
\* written k: the ids of every specification but SpecIds.
DistinctId == nextId + 1

\* createSandbox, from the call to the await of docker.createContainer.  The
\* argument of createContainer is built inside the try block, so a throw of
\* parseMemoryLimit lands in the catch.
CreateSandbox(sandboxId, name, config) ==
    /\ Call
    /\ sandboxId \in DOMAIN info
    /\ LET defaultConfig == MergeConfig(config)
           sandboxInfo == [id |-> sandboxId, name |-> name, status |-> "creating",
                           createdAt |-> now, containerId |-> NoContainer,
                           config |-> defaultConfig]
       IN  /\ nextId' = nextId + 1
           /\ sandboxes' = sandboxes \cup {sandboxId}
           /\ IF ParseMemoryLimit(defaultConfig.memoryLimit) = ParseError
                THEN /\ info' = [info EXCEPT ![sandboxId] =
                                    [sandboxInfo EXCEPT !.status = "error"]]
                     /\ task' = Put(task, Settled("create", sandboxId, "Failed"))
                ELSE /\ info' = [info EXCEPT ![sandboxId] = sandboxInfo]
                     /\ task' = Put(task, Await("create", sandboxId, sandboxId,
                                                "createContainer"))
    /\ UNCHANGED <<container, timers, cleaned, stopCalls>>
    /\ UNCHANGED beyond

\* A faulty catch block: it rethrows and leaves the status as it was.
CreateFailed_StaysCreating(r) ==
    /\ task' = Become(r, Settled("create", r.id, "Failed"))
    /\ UNCHANGED <<sandboxes, info, timers>>

\* A faulty catch block: it drops the entry instead of keeping it as error.
CreateFailed_DropsEntry(r) ==
    /\ info' = [info EXCEPT ![r.id].status = "error"]
    /\ sandboxes' = sandboxes \ {r.id}
    /\ task' = Become(r, Settled("create", r.id, "Failed"))
    /\ UNCHANGED timers

\* The catch block of createSandbox.
CreateFailed(r) ==
    /\ info' = [info EXCEPT ![r.id].status = "error"]
    /\ sandboxes' = sandboxes \cup {r.id}
    /\ task' = Become(r, Settled("create", r.id, "Failed"))
    /\ UNCHANGED timers

\* createSandbox after docker.createContainer: container.start().
CreateAfterAllocate(r) ==
    /\ Answered(r, "create", "createContainer")
    /\ IF r.out = "ok"
         THEN /\ task' = Become(r, Await("create", r.id, r.h, "start"))
              /\ UNCHANGED <<sandboxes, info, timers>>
         ELSE CreateFailed(r)
    /\ UNCHANGED <<nextId, container, cleaned, stopCalls, calls>>
    /\ UNCHANGED beyond

\* A faulty end of createSandbox: status running without the handle.
CreateAfterStart_NoHandle(r) ==
    /\ Answered(r, "create", "start")
    /\ IF r.out = "ok"
         THEN /\ info' = [info EXCEPT ![r.id].status = "running"]
              /\ sandboxes' = sandboxes \cup {r.id}
              /\ timers' = IF info[r.id].config.timeout # 0
                             THEN timers \cup {r.id} ELSE timers
              /\ task' = Become(r, Settled("create", r.id, "ok"))
         ELSE CreateFailed(r)
    /\ UNCHANGED <<nextId, container, cleaned, stopCalls, calls>>
    /\ UNCHANGED beyond

\* A faulty end of createSandbox: it leaves out the final sandboxes.set.
CreateAfterStart_NoSet(r) ==
    /\ Answered(r, "create", "start")
    /\ IF r.out = "ok"
         THEN /\ info' = [info EXCEPT ![r.id].containerId = r.h,
                                      ![r.id].status = "running"]
              /\ UNCHANGED sandboxes
              /\ timers' = IF info[r.id].config.timeout # 0
                             THEN timers \cup {r.id} ELSE timers
              /\ task' = Become(r, Settled("create", r.id, "ok"))
         ELSE CreateFailed(r)
    /\ UNCHANGED <<nextId, container, cleaned, stopCalls, calls>>
    /\ UNCHANGED beyond

\* createSandbox after container.start(): record the handle, status running,
\* sandboxes.set, and schedule the auto-cleanup when the timeout is truthy.
CreateAfterStart(r) ==
    /\ Answered(r, "create", "start")
    /\ IF r.out = "ok"
         THEN /\ info' = [info EXCEPT ![r.id].containerId = r.h,
                                      ![r.id].status = "running"]
              /\ sandboxes' = sandboxes \cup {r.id}
              /\ timers' = IF info[r.id].config.timeout # 0
                             THEN timers \cup {r.id} ELSE timers
              /\ task' = Become(r, Settled("create", r.id, "ok"))
         ELSE CreateFailed(r)
    /\ UNCHANGED <<nextId, container, cleaned, stopCalls, calls>>
    /\ UNCHANGED beyond

-----------------------------------------------------------------------------
\* The two checks executeInSandbox makes before it addresses the driver.
ExecuteAccepts(sandboxId) ==
    /\ sandboxId \in sandboxes
    /\ info[sandboxId].status = "running"

\* executeInSandbox, from the call to the await of container.exec.
ExecuteInSandbox(sandboxId) ==
    /\ Call
    /\ task' = Put(task,
          IF sandboxId \notin sandboxes
            THEN Settled("execute", sandboxId, "NotFound")
          ELSE IF info[sandboxId].status # "running"
            THEN Settled("execute", sandboxId, "NotRunning")
          ELSE Await("execute", sandboxId, info[sandboxId].containerId, "exec"))
    /\ UNCHANGED <<sandboxes, info, nextId, container, timers, cleaned, stopCalls>>
    /\ UNCHANGED beyond

\* executeInSandbox after container.exec: exec.start.
ExecuteAfterExec(r) ==
    /\ Awaiting(r, "execute", "exec")
    /\ \E served \in BOOLEAN : task' = Become(r,
          IF served /\ DriverPermits("exec", r.h)
            THEN Await("execute", r.id, r.h, "execStart")
            ELSE Settled("execute", r.id, "Failed"))
    /\ UNCHANGED <<sandboxes, info, nextId, container, timers, cleaned, stopCalls, calls>>
    /\ UNCHANGED beyond

\* executeInSandbox after exec.start: wait for the stream's end or error.
ExecuteAfterExecStart(r) ==
    /\ Awaiting(r, "execute", "execStart")
    /\ \E served \in BOOLEAN : task' = Become(r,
          IF served /\ DriverPermits("execStart", r.h)
            THEN Await("execute", r.id, r.h, "stream")
            ELSE Settled("execute", r.id, "Failed"))
    /\ UNCHANGED <<sandboxes, info, nextId, container, timers, cleaned, stopCalls, calls>>
    /\ UNCHANGED beyond

\* stream.on('end'): exec.inspect; stream.on('error'): reject.
ExecuteAfterStream(r) ==
    /\ Awaiting(r, "execute", "stream")
    /\ \E served \in BOOLEAN : task' = Become(r,
          IF served /\ DriverPermits("stream", r.h)
            THEN Await("execute", r.id, r.h, "inspect")
            ELSE Settled("execute", r.id, "Failed"))
    /\ UNCHANGED <<sandboxes, info, nextId, container, timers, cleaned, stopCalls, calls>>
    /\ UNCHANGED beyond

\* After exec.inspect: resolve with the exit code, or reject.
ExecuteAfterInspect(r) ==
    /\ Awaiting(r, "execute", "inspect")
    /\ \E served \in BOOLEAN : task' = Become(r,
          Settled("execute", r.id,
                  IF served /\ DriverPermits("inspect", r.h) THEN "ok" ELSE "Failed"))
    /\ UNCHANGED <<sandboxes, info, nextId, container, timers, cleaned, stopCalls, calls>>
    /\ UNCHANGED beyond

-----------------------------------------------------------------------------
\* pauseSandbox, from the call to the await of container.pause.
PauseSandbox(sandboxId) ==
    /\ Call
    /\ task' = Put(task,
          IF sandboxId \notin sandboxes
            THEN Settled("pause", sandboxId, "NotFound")
          ELSE IF info[sandboxId].status # "running"
            THEN Settled("pause", sandboxId, "NotRunning")
          ELSE Await("pause", sandboxId, info[sandboxId].containerId, "pause"))
    /\ UNCHANGED <<sandboxes, info, nextId, container, timers, cleaned, stopCalls>>
    /\ UNCHANGED beyond

\* A faulty pauseSandbox: it marks the sandbox paused before it looks at the
\* driver's answer.
PauseAfterDriver_IgnoresFailure(r) ==
    /\ Answered(r, "pause", "pause")
    /\ info' = [info EXCEPT ![r.id].status = "paused"]
    /\ sandboxes' = sandboxes \cup {r.id}
    /\ task' = Become(r, Settled("pause", r.id, IF r.out = "ok" THEN "ok" ELSE "Failed"))
    /\ UNCHANGED <<nextId, container, timers, cleaned, stopCalls, calls>>
    /\ UNCHANGED beyond

\* pauseSandbox after container.pause: status paused and sandboxes.set.
PauseAfterDriver(r) ==
    /\ Answered(r, "pause", "pause")
    /\ IF r.out = "ok"
         THEN /\ info' = [info EXCEPT ![r.id].status = "paused"]
              /\ sandboxes' = sandboxes \cup {r.id}
              /\ task' = Become(r, Settled("pause", r.id, "ok"))
         ELSE /\ task' = Become(r, Settled("pause", r.id, "Failed"))
              /\ UNCHANGED <<sandboxes, info>>
    /\ UNCHANGED <<nextId, container, timers, cleaned, stopCalls, calls>>
    /\ UNCHANGED beyond

\* resumeSandbox, from the call to the await of container.unpause.
ResumeSandbox(sandboxId) ==
    /\ Call
    /\ task' = Put(task,
          IF sandboxId \notin sandboxes
            THEN Settled("resume", sandboxId, "NotFound")
          ELSE IF info[sandboxId].status # "paused"
            THEN Settled("resume", sandboxId, "NotPaused")
          ELSE Await("resume", sandboxId, info[sandboxId].containerId, "unpause"))
    /\ UNCHANGED <<sandboxes, info, nextId, container, timers, cleaned, stopCalls>>
    /\ UNCHANGED beyond

\* A faulty resumeSandbox: it resolves without setting the status.
ResumeAfterDriver_KeepsStatus(r) ==
    /\ Answered(r, "resume", "unpause")
    /\ task' = Become(r, Settled("resume", r.id, IF r.out = "ok" THEN "ok" ELSE "Failed"))
    /\ UNCHANGED <<sandboxes, info, nextId, container, timers, cleaned, stopCalls, calls>>
    /\ UNCHANGED beyond

\* resumeSandbox after container.unpause: status running and sandboxes.set.
ResumeAfterDriver(r) ==
    /\ Answered(r, "resume", "unpause")
    /\ IF r.out = "ok"
         THEN /\ info' = [info EXCEPT ![r.id].status = "running"]
              /\ sandboxes' = sandboxes \cup {r.id}
              /\ task' = Become(r, Settled("resume", r.id, "ok"))
         ELSE /\ task' = Become(r, Settled("resume", r.id, "Failed"))
              /\ UNCHANGED <<sandboxes, info>>
    /\ UNCHANGED <<nextId, container, timers, cleaned, stopCalls, calls>>
    /\ UNCHANGED beyond

-----------------------------------------------------------------------------
\* The end of cleanupSandbox: status stopped, sandboxes.delete, resolve.
\* others: the calls in flight apart from this one, op: who called it.
\* A faulty end of cleanupSandbox: the entry is marked stopped and kept.
CleanupFinish_KeepsEntry(op, id, others) ==
    /\ info' = [info EXCEPT ![id].status = "stopped"]
    /\ sandboxes' = sandboxes
    /\ cleaned' = cleaned \cup {id}
    /\ task' = PromiseAll(Put(others, Settled(op, id, "ok")))
\* A faulty end of cleanupSandbox: sandboxes.clear() for sandboxes.delete(id).
CleanupFinish_Clears(op, id, others) ==
    /\ info' = [info EXCEPT ![id].status = "stopped"]
    /\ sandboxes' = {}
    /\ cleaned' = cleaned \cup {id}
    /\ task' = PromiseAll(Put(others, Settled(op, id, "ok")))
CleanupFinish(op, id, others) ==
    /\ info' = [info EXCEPT ![id].status = "stopped"]
    /\ sandboxes' = sandboxes \ {id}
    /\ cleaned' = cleaned \cup {id}
    /\ task' = PromiseAll(Put(others, Settled(op, id, "ok")))

\* cleanupSandbox, from the call to the await of container.stop; without a
\* containerId it runs to its end without suspending.
CleanupCall(sandboxId) ==
    IF sandboxId \notin sandboxes
      THEN /\ task' = Put(task, Settled("cleanup", sandboxId, "NotFound"))
           /\ UNCHANGED <<sandboxes, info, cleaned, stopCalls>>
    ELSE IF info[sandboxId].containerId # NoContainer
      THEN /\ task' = Put(task, Await("cleanup", sandboxId,
                                      info[sandboxId].containerId, "stop"))
           /\ stopCalls' = [stopCalls EXCEPT ![sandboxId] =
                  IF @ < StopCap THEN @ + 1 ELSE @]
           /\ UNCHANGED <<sandboxes, info, cleaned>>
    ELSE /\ CleanupFinish("cleanup", sandboxId, task)
         /\ UNCHANGED stopCalls

\* A caller calls cleanupSandbox.
CleanupSandbox(sandboxId) ==
    /\ Call
    /\ CleanupCall(sandboxId)
    /\ UNCHANGED <<nextId, container, timers>>
    /\ UNCHANGED beyond

\* The auto-cleanup setTimeout of createSandbox fires and calls cleanupSandbox.
AutoCleanup(sandboxId) ==
    /\ sandboxId \in timers
    /\ BagCardinality(task) < MaxTasks
    /\ timers' = timers \ {sandboxId}
    /\ CleanupCall(sandboxId)
    /\ UNCHANGED <<nextId, container, calls>>
    /\ UNCHANGED beyond

\* A faulty cleanupSandbox: container.remove whatever config.autoRemove says.
CleanupAfterStop_AlwaysRemoves(r) ==
    /\ r.op \in CleanupOps
    /\ Answered(r, r.op, "stop")
    /\ task' = Become(r, Await(r.op, r.id, r.h, "remove"))
    /\ UNCHANGED <<sandboxes, info, cleaned>>
    /\ UNCHANGED <<nextId, container, timers, stopCalls, calls>>
    /\ UNCHANGED beyond

\* cleanupSandbox after container.stop, whose failure is swallowed: remove the
\* container unless it was created with AutoRemove.
CleanupAfterStop(r) ==
    /\ r.op \in CleanupOps
    /\ Answered(r, r.op, "stop")
    /\ IF ~info[r.id].config.autoRemove
         THEN /\ task' = Become(r, Await(r.op, r.id, r.h, "remove"))
              /\ UNCHANGED <<sandboxes, info, cleaned>>
         ELSE CleanupFinish(r.op, r.id, Drop(task, r))
    /\ UNCHANGED <<nextId, container, timers, stopCalls, calls>>
    /\ UNCHANGED beyond

\* A faulty cleanupSandbox: a failure of container.remove is propagated.
CleanupAfterRemove_Propagates(r) ==
    /\ r.op \in CleanupOps
    /\ Answered(r, r.op, "remove")
    /\ IF r.out = "fail"
         THEN /\ task' = PromiseAll(Become(r, Settled(r.op, r.id, "Failed")))
              /\ UNCHANGED <<sandboxes, info, cleaned>>
         ELSE CleanupFinish(r.op, r.id, Drop(task, r))
    /\ UNCHANGED <<nextId, container, timers, stopCalls, calls>>
    /\ UNCHANGED beyond

\* cleanupSandbox after container.remove, whose failure is swallowed.
CleanupAfterRemove(r) ==
    /\ r.op \in CleanupOps
    /\ Answered(r, r.op, "remove")
    /\ CleanupFinish(r.op, r.id, Drop(task, r))
    /\ UNCHANGED <<nextId, container, timers, stopCalls, calls>>
    /\ UNCHANGED beyond

-----------------------------------------------------------------------------
\* getSandboxStats, from the call to the await of container.stats.
GetSandboxStats(sandboxId) ==
    /\ Call
    /\ task' = Put(task,
          IF sandboxId \notin sandboxes \/ info[sandboxId].containerId = NoContainer
            THEN Settled("stats", sandboxId, "NotFoundOrNotRunning")
          ELSE Await("stats", sandboxId, info[sandboxId].containerId, "stats"))
    /\ UNCHANGED <<sandboxes, info, nextId, container, timers, cleaned, stopCalls>>
    /\ UNCHANGED beyond

\* getSandboxStats after container.stats.
StatsAfterDriver(r) ==
    /\ Awaiting(r, "stats", "stats")
    /\ \E served \in BOOLEAN : task' = Become(r,
          Settled("stats", r.id,
                  IF served /\ DriverPermits("stats", r.h) THEN "ok" ELSE "Failed"))
    /\ UNCHANGED <<sandboxes, info, nextId, container, timers, cleaned, stopCalls, calls>>
    /\ UNCHANGED beyond

-----------------------------------------------------------------------------
\* The engine answers the call that r awaits, when that call changes a
\* container.
DriverAnswers(r) ==
    /\ r \in InFlight
    /\ r.out = "pending"
    /\ r.pc \in {"createContainer", "start", "pause", "unpause", "stop", "remove"}
    /\ \E served \in BOOLEAN :
          IF served /\ DriverPermits(r.pc, r.h)
            THEN /\ container' = [container EXCEPT ![r.h] = DriverEffect(r.pc, r.h)]
                 /\ task' = Become(r, [r EXCEPT !.out = "ok"])
            ELSE /\ task' = Become(r, [r EXCEPT !.out = "fail"])
                 /\ UNCHANGED container
    /\ UNCHANGED <<sandboxes, info, nextId, timers, cleaned, stopCalls, calls>>
    /\ UNCHANGED beyond

\* The caller consumes the settled promise of a call.
Return(r) ==
    /\ r \in InFlight
    /\ r.pc = "done"
    /\ task' = Drop(task, r)
    /\ UNCHANGED <<sandboxes, info, nextId, container, timers, cleaned, stopCalls, calls>>
    /\ UNCHANGED beyond

-----------------------------------------------------------------------------
\* startCleanupScheduler: a new interval, kept in this.cleanupInterval; an
\* interval the field held before keeps running.
startCleanupScheduler ==
    /\ cleanupInterval' = "live"
    /\ intervals' = intervals + 1

\* initialize, from the call to the await of docker.ping.
Initialize ==
    /\ Call
    /\ task' = Put(task, Await("initialize", NoId, NoContainer, "ping"))
    /\ UNCHANGED <<sandboxes, info, nextId, container, timers, cleaned, stopCalls>>
    /\ UNCHANGED beyond

\* initialize after docker.ping: ensureImage awaits getImage(image).inspect().
InitializeAfterPing(r) ==
    /\ Awaiting(r, "initialize", "ping")
    /\ \E served \in BOOLEAN : task' = Become(r,
          IF served THEN Await("initialize", NoId, NoContainer, "inspectImage")
                    ELSE Settled("initialize", NoId, "Failed"))
    /\ UNCHANGED <<sandboxes, info, nextId, container, timers, cleaned, stopCalls, calls>>
    /\ UNCHANGED beyond

\* The end of initialize: startCleanupScheduler, emit, resolve.
InitializeDone(r) ==
    /\ startCleanupScheduler
    /\ task' = Become(r, Settled("initialize", NoId, "ok"))

\* ensureImage after inspect: the image is there, or docker.pull is awaited.
InitializeAfterInspect(r) ==
    /\ Awaiting(r, "initialize", "inspectImage")
    /\ \E served \in BOOLEAN :
          IF served
            THEN InitializeDone(r)
            ELSE /\ task' = Become(r, Await("initialize", NoId, NoContainer, "pull"))
                 /\ UNCHANGED <<cleanupInterval, intervals>>
    /\ UNCHANGED <<sandboxes, info, nextId, container, timers, cleaned, stopCalls, calls>>
    /\ UNCHANGED <<aged, now, server, browser, output, tabs>>

\* ensureImage after docker.pull and followProgress.
InitializeAfterPull(r) ==
    /\ Awaiting(r, "initialize", "pull")
    /\ \E served \in BOOLEAN :
          IF served
            THEN InitializeDone(r)
            ELSE /\ task' = Become(r, Settled("initialize", NoId, "Failed"))
                 /\ UNCHANGED <<cleanupInterval, intervals>>
    /\ UNCHANGED <<sandboxes, info, nextId, container, timers, cleaned, stopCalls, calls>>
    /\ UNCHANGED <<aged, now, server, browser, output, tabs>>

\* Time passes: the age of a registered sandbox exceeds its budget.
Age(id) ==
    /\ id \in sandboxes \ aged
    /\ aged' = aged \cup {id}
    /\ UNCHANGED <<sandboxes, info, nextId, container, timers, task, cleaned, stopCalls, calls>>
    /\ UNCHANGED <<cleanupInterval, intervals, now, server, browser, output, tabs>>

\* cleanupSandbox called as `op` for every id of `ids`, all registered, in one
\* synchronous stretch: each call runs to its await of container.stop, or to
\* its end when the entry has no containerId.  b: the calls in flight.
CleanupEach(op, ids, b) ==
    LET direct == { id \in ids : info[id].containerId = NoContainer }
        viaDriver == ids \ direct
    IN  /\ info' = [id \in DOMAIN info |->
                      IF id \in direct THEN [info[id] EXCEPT !.status = "stopped"]
                                       ELSE info[id]]
        /\ sandboxes' = sandboxes \ direct
        /\ cleaned' = cleaned \cup direct
        /\ stopCalls' = [id \in DOMAIN stopCalls |->
                           IF id \in viaDriver /\ stopCalls[id] < StopCap
                             THEN stopCalls[id] + 1 ELSE stopCalls[id]]
        /\ task' = PromiseAll(b (+) SetToBag(
                        { Settled(op, id, "ok") : id \in direct }
                        \cup { Await(op, id, info[id].containerId, "stop") : id \in viaDriver }))

\* The entries cleanupStaleSandboxes finds stale.
staleSandboxes == { id \in sandboxes : id \in aged /\ info[id].status # "stopped" }

\* An interval of startCleanupScheduler fires: cleanupStaleSandboxes, from its
\* start to the await of Promise.all.  One sweep is in progress at a time.
CleanupStaleSandboxes ==
    /\ intervals > 0
    /\ \A r \in InFlight : r.op # "cleanupStaleSandboxes"
    /\ CleanupEach("cleanup/stale", staleSandboxes,
                   Put(task, Await("cleanupStaleSandboxes", NoId, NoContainer, "all")))
    /\ UNCHANGED <<nextId, container, timers, calls>>
    /\ UNCHANGED beyond

\* shutdown, from the call to the await of Promise.all.  clearInterval acts on
\* the interval the field holds, and on that one only.
Shutdown ==
    /\ Call
    /\ \A r \in InFlight : r.op # "shutdown"
    /\ IF cleanupInterval = "live"
         THEN /\ cleanupInterval' = "cleared"
              /\ intervals' = intervals - 1
         ELSE UNCHANGED <<cleanupInterval, intervals>>
    /\ CleanupEach("cleanup/shutdown", sandboxes,
                   Put(task, Await("shutdown", NoId, NoContainer, "all")))
    /\ UNCHANGED <<nextId, container, timers>>
    /\ UNCHANGED <<aged, now, server, browser, output, tabs>>

-----------------------------------------------------------------------------
\* BrowserSandboxManager: initialize, createContext and the sweep of stale
\* contexts.  The engine stays connected once launched.

\* Bounds of the browser manager's callers.
MaxBrowserCalls == 4   \* calls of methods of the browser manager in one behaviour
MaxPages == 2          \* page ids generatePageId issues

\* A caller of the browser manager makes a call.
CallBrowser ==
    /\ manager = "BrowserSandboxManager"
    /\ BagCardinality(task) < MaxTasks
    /\ calls < MaxBrowserCalls
    /\ calls' = calls + 1

\* The registered context ids, and the Map without the key c.
Registered == { contexts[i] : i \in DOMAIN contexts }
\* A faulty contexts.delete: the key stays.
Delete_KeepsKey(c) == contexts
Delete(c) == SelectSeq(contexts, LAMBDA x : x # c)
generateContextId == nextContext + 1

\* createContext, from the call to the first await of getBrowser: initialize
\* when not yet initialized (which starts the cleanup scheduler), a new id,
\* then chromium.launch, or browser.newContext when an engine is cached.
CreateContext ==
    /\ CallBrowser
    /\ generateContextId \in DOMAIN contextStatus
    /\ isInitialized' = TRUE
    /\ cleanupTimer' = (IF isInitialized THEN cleanupTimer ELSE TRUE)
    /\ nextContext' = generateContextId
    /\ task' = Put(task, Await("createContext", generateContextId, NoContainer,
                               IF "chromium" \in browsers THEN "newContext" ELSE "launch"))
    /\ UNCHANGED <<contexts, contextStatus, idle, browsers, sweep>>
    /\ UNCHANGED <<sandbox, server, output, tabs>>

\* getBrowser after launch: browsers.set, then createContext awaits newContext.
CreateContextAfterLaunch(r) ==
    /\ Awaiting(r, "createContext", "launch")
    /\ \E served \in BOOLEAN :
          IF served
            THEN /\ browsers' = browsers \cup {"chromium"}
                 /\ task' = Become(r, Await("createContext", r.id, NoContainer, "newContext"))
            ELSE /\ task' = Become(r, Settled("createContext", r.id, "Failed"))
                 /\ UNCHANGED browsers
    /\ UNCHANGED <<contexts, contextStatus, nextContext, idle, isInitialized, cleanupTimer, sweep>>
    /\ UNCHANGED <<sandbox, server, output, tabs, calls>>

\* createContext after browser.newContext: contexts.set with status active
\* and lastAccessedAt now.
CreateContextAfterNewContext(r) ==
    /\ Awaiting(r, "createContext", "newContext")
    /\ \E served \in BOOLEAN :
          IF served
            THEN /\ contexts' = Append(contexts, r.id)
                 /\ contextStatus' = [contextStatus EXCEPT ![r.id] = "active"]
                 /\ open' = open \cup {r.id}
                 /\ task' = Become(r, Settled("createContext", r.id, "ok"))
            ELSE /\ task' = Become(r, Settled("createContext", r.id, "Failed"))
                 /\ UNCHANGED <<contexts, contextStatus, open>>
    /\ UNCHANGED <<nextContext, idle, browsers, isInitialized, cleanupTimer, sweep>>
    /\ UNCHANGED <<sandbox, server, output, pages, nextPage, openPages, calls>>

\* Time passes: the idle time of a registered context exceeds contextMaxAge.
Idle(c) ==
    /\ c \in Registered \ idle
    /\ idle' = idle \cup {c}
    /\ UNCHANGED <<contexts, contextStatus, nextContext, browsers, isInitialized, cleanupTimer, sweep>>
    /\ UNCHANGED <<sandbox, server, output, tabs, task, calls>>

\* The for loop of cleanupStaleContexts over this.contexts.entries(), from
\* its position: registered is the Map now, stale the contexts that were idle
\* when the sweep read the clock and that the loop has not reached.  The
\* first of them is closed, which suspends the loop in closeContext at
\* context.close(); with none left the sweep ends.  warned: the contexts for
\* which the sweep logged 'Failed to cleanup stale context'.  b: the calls in
\* flight.
SweepLoop(registered, stale, warned, b) ==
    LET reach == { i \in DOMAIN registered : registered[i] \in stale }
    IN  IF reach = {}
          THEN /\ sweep' = NoSweep
               /\ task' = Put(b, Settled("cleanupStaleContexts", NoId, "ok"))
          ELSE LET c == registered[CHOOSE i \in reach : \A j \in reach : i <= j]
               IN  /\ sweep' = [pc |-> "close", contextId |-> c, stale |-> stale \ {c},
                                 warned |-> warned]
                   /\ task' = b

\* The interval of the browser manager's startCleanupScheduler fires:
\* cleanupStaleContexts.  One sweep is in progress at a time.
CleanupStaleContexts ==
    /\ cleanupTimer
    /\ sweep.pc = "none"
    /\ \A r \in InFlight : r.op # "cleanupStaleContexts"
    /\ SweepLoop(contexts, Registered \cap idle, {}, task)
    /\ UNCHANGED <<contexts, contextStatus, nextContext, idle, browsers, isInitialized, cleanupTimer>>
    /\ UNCHANGED <<sandbox, server, output, tabs, calls>>

\* The engine's pages once it has closed context c: a context that closes
\* closes its pages.
ClosedWith(c) == { q \in openPages : q[1] # c }

\* A faulty sweep: a failed closeContext ends it.
CleanupStaleContextsAfterClose_Aborts ==
    /\ sweep.pc = "close"
    /\ \E served \in BOOLEAN :
          IF served
            THEN /\ contextStatus' = [contextStatus EXCEPT ![sweep.contextId] = "closed"]
                 /\ contexts' = Delete(sweep.contextId)
                 /\ open' = open \ {sweep.contextId}
                 /\ openPages' = ClosedWith(sweep.contextId)
                 /\ SweepLoop(Delete(sweep.contextId), sweep.stale, sweep.warned, task)
            ELSE /\ sweep' = NoSweep
                 /\ task' = Put(task, Settled("cleanupStaleContexts", NoId, "Failed"))
                 /\ UNCHANGED <<contexts, contextStatus, open, openPages>>
    /\ UNCHANGED <<nextContext, idle, browsers, isInitialized, cleanupTimer>>
    /\ UNCHANGED <<sandbox, server, output, pages, nextPage, calls>>

\* cleanupStaleContexts after the closeContext it awaits: when context.close()
\* succeeded, status closed and contexts.delete; when it failed, closeContext
\* throws with the entry left as it was, and the sweep logs it.  Then the
\* loop goes on.
CleanupStaleContextsAfterClose ==
    /\ sweep.pc = "close"
    /\ \E served \in BOOLEAN :
          IF served
            THEN /\ contextStatus' = [contextStatus EXCEPT ![sweep.contextId] = "closed"]
                 /\ contexts' = Delete(sweep.contextId)
                 /\ open' = open \ {sweep.contextId}
                 /\ openPages' = ClosedWith(sweep.contextId)
                 /\ SweepLoop(Delete(sweep.contextId), sweep.stale, sweep.warned, task)
            ELSE /\ SweepLoop(contexts, sweep.stale, sweep.warned \cup {sweep.contextId}, task)
                 /\ UNCHANGED <<contexts, contextStatus, open, openPages>>
    /\ UNCHANGED <<nextContext, idle, browsers, isInitialized, cleanupTimer>>
    /\ UNCHANGED <<sandbox, server, output, pages, nextPage, calls>>

-----------------------------------------------------------------------------
\* The managers left to their schedulers: callers create sandboxes without an
\* auto-cleanup timer (config Untimed) and browser contexts, and call initialize,
\* but never cleanupSandbox, closeContext or shutdown.  A behaviour exercises
\* one of the two managers.
Untimed == [timeout |-> 0, autoRemove |-> FALSE]
InitSweep ==
    /\ Constructed(StaleIds)
    /\ stream = NoStream
    /\ manager \in {"SandboxManager", "BrowserSandboxManager"}

NextSweep ==
    \/ manager = "SandboxManager" /\ \E name \in CallerNames : CreateSandbox(DistinctId, name, Untimed)
    \/ \E r \in InFlight : CreateAfterAllocate(r)
    \/ \E r \in InFlight : CreateAfterStart(r)
    \/ manager = "SandboxManager" /\ Initialize
    \/ \E r \in InFlight : InitializeAfterPing(r)
    \/ \E r \in InFlight : InitializeAfterInspect(r)
    \/ \E r \in InFlight : InitializeAfterPull(r)
    \/ \E id \in StaleIds : Age(id)
    \/ CleanupStaleSandboxes
    \/ \E r \in InFlight : CleanupAfterStop(r)
    \/ \E r \in InFlight : CleanupAfterRemove(r)
    \/ \E r \in InFlight : DriverAnswers(r)
    \/ manager = "BrowserSandboxManager" /\ CreateContext
    \/ \E r \in InFlight : CreateContextAfterLaunch(r)
    \/ \E r \in InFlight : CreateContextAfterNewContext(r)
    \/ \E c \in StaleIds : Idle(c)
    \/ CleanupStaleContexts
    \/ CleanupStaleContextsAfterClose
    \/ \E r \in InFlight : Return(r)

SpecSweep == InitSweep /\ [][NextSweep]_vars

\* Scheduling of SpecSweep: the engines answer, the event loop runs the
\* continuations and the intervals of both schedulers keep firing.
FairnessSweep ==
    /\ WF_vars(\E r \in InFlight : DriverAnswers(r))
    /\ WF_vars(\E r \in InFlight :
                  \/ CreateAfterAllocate(r) \/ CreateAfterStart(r)
                  \/ InitializeAfterPing(r) \/ InitializeAfterInspect(r)
                  \/ InitializeAfterPull(r)
                  \/ CleanupAfterStop(r) \/ CleanupAfterRemove(r)
                  \/ CreateContextAfterLaunch(r) \/ CreateContextAfterNewContext(r))
    /\ WF_vars(CleanupStaleContextsAfterClose)
    /\ WF_vars(CleanupStaleSandboxes)
    /\ WF_vars(CleanupStaleContexts)
    /\ WF_vars(\E r \in InFlight : Return(r))
SpecSweepFair == SpecSweep /\ FairnessSweep

-----------------------------------------------------------------------------
\* The ids a caller passes: every id issued so far, and one that never was
\* (all ids never issued behave alike).
CallerIds == { id \in DOMAIN info : id <= nextId + 1 }

\* Every step but a caller's call of cleanupSandbox.
Unattended ==
    \/ \E name \in CallerNames, config \in CallerConfigs :
          CreateSandbox(DistinctId, name, config)
    \/ \E r \in InFlight : CreateAfterAllocate(r)
    \/ \E r \in InFlight : CreateAfterStart(r)
    \/ \E id \in CallerIds : ExecuteInSandbox(id)
    \/ \E r \in InFlight : ExecuteAfterExec(r)
    \/ \E r \in InFlight : ExecuteAfterExecStart(r)
    \/ \E r \in InFlight : ExecuteAfterStream(r)
    \/ \E r \in InFlight : ExecuteAfterInspect(r)
    \/ \E id \in CallerIds : PauseSandbox(id)
    \/ \E r \in InFlight : PauseAfterDriver(r)
    \/ \E id \in CallerIds : ResumeSandbox(id)
    \/ \E r \in InFlight : ResumeAfterDriver(r)
    \/ \E id \in Ids : AutoCleanup(id)
    \/ \E r \in InFlight : CleanupAfterStop(r)
    \/ \E r \in InFlight : CleanupAfterRemove(r)
    \/ \E id \in CallerIds : GetSandboxStats(id)
    \/ \E r \in InFlight : StatsAfterDriver(r)
    \/ \E r \in InFlight : DriverAnswers(r)
    \/ \E r \in InFlight : Return(r)

Next ==
    \/ Unattended
    \/ \E id \in CallerIds : CleanupSandbox(id)

Spec == Init /\ [][Next]_vars

-----------------------------------------------------------------------------
\* Scheduling.  The event loop runs every continuation whose awaited promise
\* has settled and every timer that is due; the engine answers every call
\* (the proviso of the termination claims); callers consume settled promises.
Continues(r) ==
    \/ CreateAfterAllocate(r) \/ CreateAfterStart(r)
    \/ ExecuteAfterExec(r) \/ ExecuteAfterExecStart(r)
    \/ ExecuteAfterStream(r) \/ ExecuteAfterInspect(r)
    \/ PauseAfterDriver(r) \/ ResumeAfterDriver(r)
    \/ CleanupAfterStop(r) \/ CleanupAfterRemove(r)
    \/ StatsAfterDriver(r)
Fairness ==
    /\ WF_vars(\E r \in InFlight : DriverAnswers(r))
    /\ WF_vars(\E r \in InFlight : Continues(r))
    /\ WF_vars(\E r \in InFlight : Return(r))
    /\ WF_vars(\E id \in Ids : AutoCleanup(id))
SpecFair == Spec /\ Fairness
\* The manager when no caller ever calls cleanupSandbox.
SpecUnattended == Init /\ [][Unattended]_vars /\ Fairness

\* The SandboxManager with its scheduler: every method, the auto-cleanup
\* timers and the intervals of startCleanupScheduler.
NextSched ==
    \/ Next
    \/ Initialize
    \/ \E r \in InFlight : InitializeAfterPing(r)
    \/ \E r \in InFlight : InitializeAfterInspect(r)
    \/ \E r \in InFlight : InitializeAfterPull(r)
    \/ \E id \in Ids : Age(id)
    \/ CleanupStaleSandboxes
    \/ Shutdown
SpecSched == Init /\ [][NextSched]_vars

-----------------------------------------------------------------------------
\* The SandboxManager with the ids generateId computes: the clock advances
\* between calls or not, and Math.random() yields any digits.  A second
\* sandboxes.set under an id replaces the entry; the model writes the new
\* SandboxInfo over the old one in info.
ClockIds == { generateId(time, digits) : time \in 0..MaxNow, digits \in RandomDigits }

\* A millisecond passes.
Tick ==
    /\ now < MaxNow
    /\ now' = now + 1
    /\ UNCHANGED <<sandboxes, info, nextId, container, timers, task, cleaned, stopCalls,
                   calls, cleanupInterval, intervals, aged, server, browser, output, tabs>>

InitIds ==
    /\ Constructed(ClockIds)
    /\ stream = NoStream
    /\ manager = "SandboxManager"

NextIds ==
    \/ Tick
    \/ \E digits \in RandomDigits, name \in CallerNames, config \in CallerConfigs :
          CreateSandbox(generateId(now, digits), name, config)
    \/ \E r \in InFlight : CreateAfterAllocate(r)
    \/ \E r \in InFlight : CreateAfterStart(r)
    \/ \E id \in ClockIds : CleanupSandbox(id)
    \/ \E id \in ClockIds : AutoCleanup(id)
    \/ \E r \in InFlight : CleanupAfterStop(r)
    \/ \E r \in InFlight : CleanupAfterRemove(r)
    \/ \E r \in InFlight : DriverAnswers(r)
    \/ \E r \in InFlight : Return(r)

SpecIds == InitIds /\ [][NextIds]_vars

-----------------------------------------------------------------------------
\* BrowserSandboxManager: the methods callers use on contexts and pages.

\* The pageId argument when the caller passes none.
NoPage == 0
generatePageId == nextPage + 1

\* The context ids and page ids a caller passes: the ids issued so far, and
\* one that never was.
CallerContexts == { c \in DOMAIN contextStatus : c <= nextContext + 1 }
CallerPages == 1..(nextPage + 1)

\* getManagedContext: the BrowserErrorCode it throws with, or "ok".
getManagedContext(contextId) ==
    IF contextId \notin Registered THEN "CONTEXT_NOT_FOUND"
    ELSE IF contextStatus[contextId] # "active" THEN "CONTEXT_NOT_FOUND"
    ELSE "ok"

\* The keys of a Map of pages, and the Map without the key p.
PagesOf(c) == { pages[c][i] : i \in DOMAIN pages[c] }
DeletePage(c, p) == SelectSeq(pages[c], LAMBDA x : x # p)

\* getPage: the page it returns, NoPage when it throws PAGE_NOT_FOUND.
\* Without a pageId it is the last value of the Map, pages[pages.length - 1].
getPage(contextId, pageId) ==
    IF pageId = NoPage
      THEN IF Len(pages[contextId]) = 0 THEN NoPage
           ELSE pages[contextId][Len(pages[contextId])]
      ELSE IF pageId \in PagesOf(contextId) THEN pageId ELSE NoPage

\* lastAccessedAt = new Date(): the idle time of the context starts anew.
Touch(c) == idle' = idle \ {c}

\* A call that threw: the BrowserErrorCode, and in `out` what made the engine
\* fail ("none" when the manager threw on its own).
Thrown(op, id, code, cause) == [Settled(op, id, code) EXCEPT !.out = cause]

\* String.toLowerCase() and String.includes()
UpperCase == <<"A", "B", "C", "D", "E", "F", "G", "H", "I", "J", "K", "L", "M", "N", "O", "P", "Q", "R", "S", "T", "U", "V", "W", "X", "Y", "Z">>
LowerCase == <<"a", "b", "c", "d", "e", "f", "g", "h", "i", "j", "k", "l", "m", "n", "o", "p", "q", "r", "s", "t", "u", "v", "w", "x", "y", "z">>
toLowerCase(str) ==
    [i \in DOMAIN str |->
        IF \E k \in DOMAIN UpperCase : UpperCase[k] = str[i]
          THEN LowerCase[CHOOSE k \in DOMAIN UpperCase : UpperCase[k] = str[i]]
          ELSE str[i]]
includes(str, part) ==
    \E i \in 1..(Len(str) - Len(part) + 1) : SubSeq(str, i, i + Len(part) - 1) = part

\* The urls callers navigate to.
Urls ==
    { <<"h", "t", "t", "p", ":", "/", "/", "a", "/">>,
      <<"h", "t", "t", "p", ":", "/", "/", "a", "/", "T", "i", "m", "e", "o", "u", "t">> }

\* The errors of the engine's page.goto: the navigation exceeded its timeout,
\* or it failed, which the engine reports with the url.
GotoErrors(url) ==
    { [cause |-> "timeout", message |-> <<"T", "i", "m", "e", "o", "u", "t", " ", "5", "0", "m", "s", " ", "e", "x", "c", "e", "e", "d", "e", "d">>],
      [cause |-> "other", message |-> <<"n", "e", "t", ":", ":", "E", "R", "R", "_", "F", "A", "I", "L", "E", "D", " ", "a", "t", " ">> \o url] }
\* The error of context.newPage.
NewPageError == [cause |-> "other", message |-> <<"T", "a", "r", "g", "e", "t", " ", "c", "l", "o", "s", "e", "d">>]

\* The catch block of navigate: the error code by the error's message.
NavigateErrorCode(error) ==
    IF includes(toLowerCase(error.message), <<"t", "i", "m", "e", "o", "u", "t">>)
      THEN "NAVIGATION_TIMEOUT" ELSE "NAVIGATION_FAILED"

\* navigate, from the call to the await of context.newPage.
Navigate(contextId) ==
    /\ CallBrowser
    /\ generatePageId <= MaxPages
    /\ IF getManagedContext(contextId) # "ok"
         THEN /\ task' = Put(task, Thrown("navigate", contextId,
                                          getManagedContext(contextId), "none"))
              /\ UNCHANGED nextPage
         ELSE /\ nextPage' = generatePageId
              /\ task' = Put(task, Await("navigate", contextId, generatePageId, "newPage"))
    /\ UNCHANGED <<browser, pages, open, openPages>>
    /\ UNCHANGED <<sandbox, server, output>>

\* navigate after context.newPage: lastAccessedAt, then page.goto.  The
\* caller of the model passes no referer.
NavigateAfterNewPage(r) ==
    /\ Awaiting(r, "navigate", "newPage")
    /\ \E served \in BOOLEAN :
          IF served /\ r.id \in open
            THEN /\ Touch(r.id)
                 /\ openPages' = openPages \cup {<<r.id, r.h>>}
                 /\ task' = Become(r, Await("navigate", r.id, r.h, "goto"))
            ELSE /\ task' = Become(r, Thrown("navigate", r.id,
                                    NavigateErrorCode(NewPageError), NewPageError.cause))
                 /\ UNCHANGED <<idle, openPages>>
    /\ UNCHANGED <<contexts, contextStatus, nextContext, browsers, isInitialized,
                   cleanupTimer, sweep>>
    /\ UNCHANGED <<sandbox, server, output, pages, nextPage, open, calls>>

\* navigate after page.goto: pages.set and the page id, or the catch block.
\* The url is read by the engine only, which puts it into its error.
NavigateAfterGoto(r) ==
    /\ Awaiting(r, "navigate", "goto")
    /\ \/ /\ r.id \in open
          /\ pages' = [pages EXCEPT ![r.id] = Append(@, r.h)]
          /\ task' = Become(r, [Settled("navigate", r.id, "ok") EXCEPT !.h = r.h])
       \/ /\ \E url \in Urls : \E error \in GotoErrors(url) :
                task' = Become(r, Thrown("navigate", r.id, NavigateErrorCode(error),
                                         error.cause))
          /\ UNCHANGED pages
    /\ UNCHANGED <<browser, nextPage, open, openPages>>
    /\ UNCHANGED <<sandbox, server, output, calls>>

\* getPageContent, screenshot, generatePDF and executeJavaScript: getPage and
\* getManagedContext, lastAccessedAt, then the await of the page's method.
PageMethods == {"getPageContent", "screenshot", "generatePDF", "executeJavaScript"}
PageOperation(op, contextId, pageId) ==
    /\ CallBrowser
    /\ IF getManagedContext(contextId) # "ok"
         THEN /\ task' = Put(task, Thrown(op, contextId, getManagedContext(contextId), "none"))
              /\ UNCHANGED idle
       ELSE IF getPage(contextId, pageId) = NoPage
         THEN /\ task' = Put(task, Thrown(op, contextId, "PAGE_NOT_FOUND", "none"))
              /\ UNCHANGED idle
         ELSE /\ Touch(contextId)
              /\ task' = Put(task, Await(op, contextId, getPage(contextId, pageId), "page"))
    /\ UNCHANGED <<contexts, contextStatus, nextContext, browsers, isInitialized,
                   cleanupTimer, sweep>>
    /\ UNCHANGED <<sandbox, server, output, tabs>>

\* The code a failed page method is thrown with.
PageErrorCode(op) ==
    CASE op = "getPageContent" -> "PAGE_NOT_FOUND"
      [] op = "screenshot" -> "SCREENSHOT_FAILED"
      [] op = "generatePDF" -> "PDF_GENERATION_FAILED"

\* A faulty executeJavaScript: the catch block throws.
PageOperationAfterPage_Throws(r) ==
    /\ r.op \in PageMethods
    /\ Awaiting(r, r.op, "page")
    /\ \E served \in BOOLEAN : task' = Become(r,
          IF served /\ r.id \in open
            THEN [Settled(r.op, r.id,
                          IF r.op = "executeJavaScript" THEN "success: true" ELSE "ok")
                    EXCEPT !.h = r.h]
          ELSE IF r.op = "executeJavaScript"
            THEN Thrown(r.op, r.id, "SCRIPT_FAILED", "page")
          ELSE Thrown(r.op, r.id, PageErrorCode(r.op), "page"))
    /\ UNCHANGED <<browser, tabs>>
    /\ UNCHANGED <<sandbox, server, output, calls>>

\* After page.content, page.screenshot, page.pdf or page.evaluate: the result,
\* or the catch block, which throws but in executeJavaScript, where it
\* returns {success: false, error}.
PageOperationAfterPage(r) ==
    /\ r.op \in PageMethods
    /\ Awaiting(r, r.op, "page")
    /\ \E served \in BOOLEAN : task' = Become(r,
          IF served /\ r.id \in open
            THEN [Settled(r.op, r.id,
                          IF r.op = "executeJavaScript" THEN "success: true" ELSE "ok")
                    EXCEPT !.h = r.h]
          ELSE IF r.op = "executeJavaScript"
            THEN [Settled(r.op, r.id, "success: false") EXCEPT !.out = "page"]
          ELSE Thrown(r.op, r.id, PageErrorCode(r.op), "page"))
    /\ UNCHANGED <<browser, tabs>>
    /\ UNCHANGED <<sandbox, server, output, calls>>

\* listPages: getManagedContext, then the pages of the Map.
ListPages(contextId) ==
    /\ CallBrowser
    /\ task' = Put(task,
          IF getManagedContext(contextId) # "ok"
            THEN Thrown("listPages", contextId, getManagedContext(contextId), "none")
            ELSE Settled("listPages", contextId, "ok"))
    /\ UNCHANGED <<browser, tabs>>
    /\ UNCHANGED <<sandbox, server, output>>

\* closePage, from the call to the await of page.close.
ClosePage(contextId, pageId) ==
    /\ CallBrowser
    /\ task' = Put(task,
          IF getManagedContext(contextId) # "ok"
            THEN Thrown("closePage", contextId, getManagedContext(contextId), "none")
          ELSE IF pageId \notin PagesOf(contextId)
            THEN Thrown("closePage", contextId, "PAGE_NOT_FOUND", "none")
          ELSE Await("closePage", contextId, pageId, "page.close"))
    /\ UNCHANGED <<browser, tabs>>
    /\ UNCHANGED <<sandbox, server, output>>

\* closePage after page.close: pages.delete, or the catch block.
ClosePageAfterClose(r) ==
    /\ Awaiting(r, "closePage", "page.close")
    /\ \E served \in BOOLEAN :
          IF served
            THEN /\ pages' = [pages EXCEPT ![r.id] = DeletePage(r.id, r.h)]
                 /\ openPages' = openPages \ {<<r.id, r.h>>}
                 /\ task' = Become(r, Settled("closePage", r.id, "ok"))
            ELSE /\ task' = Become(r, Thrown("closePage", r.id, "PAGE_NOT_FOUND", "page"))
                 /\ UNCHANGED <<pages, openPages>>
    /\ UNCHANGED <<browser, nextPage, open>>
    /\ UNCHANGED <<sandbox, server, output, calls>>

\* closeContext is called by callers and, for every context id of its
\* snapshot in turn, by shutdown, whose call record then stands for the
\* closeContext it awaits.
CloseOps == {"closeContext", "shutdown"}

\* shutdown after its loop over the contexts: browser.close() for the cached
\* engine, or with none cached browsers.clear(), isInitialized = false and the
\* end of shutdown.
CloseBrowsers(b) ==
    IF browsers # {}
      THEN /\ task' = Put(b, Await("shutdown", NoId, NoPage, "browser.close"))
           /\ UNCHANGED <<browsers, isInitialized>>
      ELSE /\ task' = Put(b, Settled("shutdown", NoId, "ok"))
           /\ browsers' = {}
           /\ isInitialized' = FALSE

\* The loop of closeContext over managedContext.pages.entries(), from its
\* position: page.close() for the first page the iterator has not visited,
\* context.close() when it has visited all.  res is "warned" once the loop
\* logged 'Error closing page'.
ClosePages(op, contextId, todo, seen, res, b) ==
    LET left == { i \in DOMAIN pages[contextId] : pages[contextId][i] \notin seen }
        call == IF left = {}
                  THEN [Await(op, contextId, NoPage, "context.close") EXCEPT !.seen = seen]
                  ELSE LET p == pages[contextId][CHOOSE i \in left : \A j \in left : i <= j]
                       IN  [Await(op, contextId, p, "page.close") EXCEPT !.seen = seen \cup {p}]
    IN  task' = Put(b, [call EXCEPT !.todo = todo, !.res = res])

\* The loop of shutdown over its snapshot of the context ids, from its
\* position: closeContext for the next id, which throws at once for an id
\* that is registered no more; then the engines.
RECURSIVE CloseContexts(_, _)
CloseContexts(todo, b) ==
    IF todo = << >> THEN CloseBrowsers(b)
    ELSE IF Head(todo) \notin Registered THEN CloseContexts(Tail(todo), b)
    ELSE /\ ClosePages("shutdown", Head(todo), Tail(todo), {}, "none", b)
         /\ UNCHANGED <<browsers, isInitialized>>

\* closeContext, from the call to its first await.
CloseContext(contextId) ==
    /\ CallBrowser
    /\ IF contextId \notin Registered
         THEN task' = Put(task, Thrown("closeContext", contextId, "CONTEXT_NOT_FOUND", "none"))
         ELSE ClosePages("closeContext", contextId, << >>, {}, "none", task)
    /\ UNCHANGED <<browser, tabs>>
    /\ UNCHANGED <<sandbox, server, output>>

\* A faulty closeContext: a page that fails to close ends it.
CloseContextAfterPage_Throws(r) ==
    /\ r.op \in CloseOps
    /\ Awaiting(r, r.op, "page.close")
    /\ \E served \in BOOLEAN :
          IF served
            THEN /\ ClosePages(r.op, r.id, r.todo, r.seen, r.res, Drop(task, r))
                 /\ openPages' = openPages \ {<<r.id, r.h>>}
            ELSE /\ task' = Become(r, Thrown(r.op, r.id, "CONTEXT_NOT_FOUND", "page"))
                 /\ UNCHANGED openPages
    /\ UNCHANGED <<browser, pages, nextPage, open>>
    /\ UNCHANGED <<sandbox, server, output, calls>>

\* closeContext after page.close() of one page: a failure is logged, and the
\* loop goes on.
CloseContextAfterPage(r) ==
    /\ r.op \in CloseOps
    /\ Awaiting(r, r.op, "page.close")
    /\ \E served \in BOOLEAN :
          /\ ClosePages(r.op, r.id, r.todo, r.seen, IF served THEN r.res ELSE "warned",
                        Drop(task, r))
          /\ openPages' = (IF served THEN openPages \ {<<r.id, r.h>>} ELSE openPages)
    /\ UNCHANGED <<browser, pages, nextPage, open>>
    /\ UNCHANGED <<sandbox, server, output, calls>>

\* The engine answers context.close(): the context is closed, or the call fails.
BrowserAnswers(r) ==
    /\ r \in InFlight
    /\ r.out = "pending"
    /\ r.pc = "context.close"
    /\ \E served \in BOOLEAN :
          IF served
            THEN /\ open' = open \ {r.id}
                 /\ openPages' = ClosedWith(r.id)
                 /\ task' = Become(r, [r EXCEPT !.out = "ok"])
            ELSE /\ task' = Become(r, [r EXCEPT !.out = "fail"])
                 /\ UNCHANGED <<open, openPages>>
    /\ UNCHANGED <<browser, pages, nextPage>>
    /\ UNCHANGED <<sandbox, server, output, calls>>

\* closeContext after context.close(): status closed and contexts.delete, or
\* the catch block, which throws with the entry left as it was.  shutdown
\* logs the throw and goes on with the next context.
CloseContextAfterClose(r) ==
    /\ r.op \in CloseOps
    /\ Answered(r, r.op, "context.close")
    /\ IF r.out = "ok"
         THEN /\ contextStatus' = [contextStatus EXCEPT ![r.id] = "closed"]
              /\ contexts' = Delete(r.id)
         ELSE UNCHANGED <<contexts, contextStatus>>
    /\ IF r.op = "shutdown"
         THEN LET registered == IF r.out = "ok" THEN Delete(r.id) ELSE contexts
                  todo == SelectSeq(r.todo, LAMBDA c : \E i \in DOMAIN registered : registered[i] = c)
              IN  IF todo = << >>
                    THEN CloseBrowsers(Drop(task, r))
                    ELSE /\ ClosePages("shutdown", Head(todo), Tail(todo), {}, "none",
                                       Drop(task, r))
                         /\ UNCHANGED <<browsers, isInitialized>>
         ELSE /\ task' = Become(r, IF r.out = "ok" THEN Settled("closeContext", r.id, "ok")
                                   ELSE Thrown("closeContext", r.id, "CONTEXT_NOT_FOUND", "context"))
              /\ UNCHANGED <<browsers, isInitialized>>
    /\ UNCHANGED <<nextContext, idle, cleanupTimer, sweep>>
    /\ UNCHANGED <<sandbox, server, output, tabs, calls>>

\* shutdown of the browser manager, from the call to its first await:
\* clearInterval, the snapshot of the context ids, closeContext for the first.
ShutdownBrowser ==
    /\ CallBrowser
    /\ cleanupTimer' = FALSE
    /\ CloseContexts(contexts, task)
    /\ UNCHANGED <<contexts, contextStatus, nextContext, idle, sweep>>
    /\ UNCHANGED <<sandbox, server, output, tabs>>

\* shutdown after browser.close(): a failure is logged; browsers.clear(),
\* isInitialized = false.  The engine that closed holds no context any more.
ShutdownAfterBrowserClose(r) ==
    /\ Awaiting(r, "shutdown", "browser.close")
    /\ \E served \in BOOLEAN :
          /\ open' = (IF served THEN {} ELSE open)
          /\ openPages' = (IF served THEN {} ELSE openPages)
    /\ browsers' = {}
    /\ isInitialized' = FALSE
    /\ task' = Become(r, Settled("shutdown", NoId, "ok"))
    /\ UNCHANGED <<contexts, contextStatus, nextContext, idle, cleanupTimer, sweep>>
    /\ UNCHANGED <<sandbox, server, output, pages, nextPage, calls>>

\* The browser manager and its callers.  The interval of its scheduler is
\* left out: its sweep is the subject of SpecSweep.
InitBrowser ==
    /\ Constructed(StaleIds)
    /\ stream = NoStream
    /\ manager = "BrowserSandboxManager"

NextBrowser ==
    \/ CreateContext
    \/ \E r \in InFlight : CreateContextAfterLaunch(r)
    \/ \E r \in InFlight : CreateContextAfterNewContext(r)
    \/ \E c \in CallerContexts : Navigate(c)
    \/ \E r \in InFlight : NavigateAfterNewPage(r)
    \/ \E r \in InFlight : NavigateAfterGoto(r)
    \/ \E op \in PageMethods, c \in CallerContexts, p \in CallerPages \cup {NoPage} :
          PageOperation(op, c, p)
    \/ \E r \in InFlight : PageOperationAfterPage(r)
    \/ \E c \in CallerContexts : ListPages(c)
    \/ \E c \in CallerContexts, p \in CallerPages : ClosePage(c, p)
    \/ \E r \in InFlight : ClosePageAfterClose(r)
    \/ \E c \in CallerContexts : CloseContext(c)
    \/ \E r \in InFlight : CloseContextAfterPage(r)
    \/ \E r \in InFlight : BrowserAnswers(r)
    \/ \E r \in InFlight : CloseContextAfterClose(r)
    \/ ShutdownBrowser
    \/ \E r \in InFlight : ShutdownAfterBrowserClose(r)
    \/ \E c \in StaleIds : Idle(c)
    \/ \E r \in InFlight : Return(r)

SpecBrowser == InitBrowser /\ [][NextBrowser]_vars

-----------------------------------------------------------------------------
\* Either manager with several entries in its registry and all the methods
\* its callers use on one entry; a behaviour exercises one of the managers.
InitFrame ==
    /\ Constructed(StaleIds)
    /\ stream = NoStream
    /\ manager \in {"SandboxManager", "BrowserSandboxManager"}

NextFrame ==
    \/ manager = "SandboxManager" /\ \E name \in CallerNames, config \in CallerConfigs :
          CreateSandbox(DistinctId, name, config)
    \/ \E r \in InFlight : CreateAfterAllocate(r)
    \/ \E r \in InFlight : CreateAfterStart(r)
    \/ manager = "SandboxManager" /\ \E id \in CallerIds : ExecuteInSandbox(id)
    \/ \E r \in InFlight : ExecuteAfterExec(r)
    \/ \E r \in InFlight : ExecuteAfterExecStart(r)
    \/ \E r \in InFlight : ExecuteAfterStream(r)
    \/ \E r \in InFlight : ExecuteAfterInspect(r)
    \/ manager = "SandboxManager" /\ \E id \in CallerIds : PauseSandbox(id)
    \/ \E r \in InFlight : PauseAfterDriver(r)
    \/ manager = "SandboxManager" /\ \E id \in CallerIds : ResumeSandbox(id)
    \/ \E r \in InFlight : ResumeAfterDriver(r)
    \/ manager = "SandboxManager" /\ \E id \in CallerIds : CleanupSandbox(id)
    \/ \E id \in StaleIds : AutoCleanup(id)
    \/ \E r \in InFlight : CleanupAfterStop(r)
    \/ \E r \in InFlight : CleanupAfterRemove(r)
    \/ manager = "SandboxManager" /\ \E id \in CallerIds : GetSandboxStats(id)
    \/ \E r \in InFlight : StatsAfterDriver(r)
    \/ \E r \in InFlight : DriverAnswers(r)
    \/ CreateContext
    \/ \E r \in InFlight : CreateContextAfterLaunch(r)
    \/ \E r \in InFlight : CreateContextAfterNewContext(r)
    \/ \E c \in CallerContexts : Navigate(c)
    \/ \E r \in InFlight : NavigateAfterNewPage(r)
    \/ \E r \in InFlight : NavigateAfterGoto(r)
    \/ \E op \in PageMethods, c \in CallerContexts, p \in CallerPages \cup {NoPage} :
          PageOperation(op, c, p)
    \/ \E r \in InFlight : PageOperationAfterPage(r)
    \/ \E c \in CallerContexts : ListPages(c)
    \/ \E c \in CallerContexts, p \in CallerPages : ClosePage(c, p)
    \/ \E r \in InFlight : ClosePageAfterClose(r)
    \/ \E c \in CallerContexts : CloseContext(c)
    \/ \E r \in InFlight : CloseContextAfterPage(r)
    \/ \E r \in InFlight : BrowserAnswers(r)
    \/ \E r \in InFlight : CloseContextAfterClose(r)
    \/ \E c \in StaleIds : Idle(c)
    \/ \E r \in InFlight : Return(r)

SpecFrame == InitFrame /\ [][NextFrame]_vars

-----------------------------------------------------------------------------
\* MCPSandboxServer: the handler of CallToolRequestSchema over the
\* SandboxManager.  A tool call runs the case of the switch for its name
\* inside one try block, awaiting the manager's promise there; the catch
\* block turns whatever was thrown into a result.  A text is the sequence
\* of the pieces of its template literal.  The auto-cleanup timers of the
\* sandboxes are not yet due.

\* The sandbox tools, and a name that no case of the switch has.
SandboxTools ==
    {"create_sandbox", "execute_in_sandbox", "list_sandboxes", "get_sandbox",
     "pause_sandbox", "resume_sandbox", "cleanup_sandbox", "get_sandbox_stats"}
UnknownTools == {"no_such_tool"}
\* The tools whose case begins with Schema.parse(args).
ParsingTools == SandboxTools \ {"list_sandboxes"}

\* return { content: [{ type: 'text', text }] }
ToolResult(text) == [isError |-> FALSE, text |-> text]
\* A faulty catch block: the text without the isError flag.
ToolError_NoFlag(message) == [isError |-> FALSE, text |-> <<"Error: ">> \o message]
\* catch (error): { content: [{ type: 'text', text: `Error: ${message}` }], isError: true }
ToolError(message) == [isError |-> TRUE, text |-> <<"Error: ">> \o message]

\* The ways a manager method's promise rejects, and the message of its Error.
Rejections == {"NotFound", "NotRunning", "NotPaused", "NotFoundOrNotRunning", "Failed"}
ErrorMessage(op, id, res) ==
    CASE res = "NotFound" -> <<"Sandbox ", ToString(id), " not found">>
      [] res = "NotRunning" /\ op = "execute" ->
            <<"Sandbox ", ToString(id), " is not running (status: ", "${sandbox.status}", ")">>
      [] res = "NotRunning" -> <<"Sandbox ", ToString(id), " is not running">>
      [] res = "NotPaused" -> <<"Sandbox ", ToString(id), " is not paused">>
      [] res = "NotFoundOrNotRunning" ->
            <<"Sandbox ", ToString(id), " not found or not running">>
      [] res = "Failed" /\ op = "create" -> <<"Failed to create sandbox: ", "${message}">>
      [] res = "Failed" /\ op = "execute" -> <<"Failed to execute command: ", "${message}">>
      [] res = "Failed" /\ op = "pause" -> <<"Failed to pause sandbox: ", "${message}">>
      [] res = "Failed" /\ op = "resume" -> <<"Failed to resume sandbox: ", "${message}">>
      [] res = "Failed" /\ op = "stats" -> <<"Failed to get sandbox stats: ", "${message}">>
      [] OTHER -> <<"Failed to cleanup sandbox: ", "${message}">>
\* The text of the result when the method's promise resolved.
SuccessText(op, id) ==
    CASE op = "pause" -> <<"Sandbox ", ToString(id), " paused successfully">>
      [] op = "resume" -> <<"Sandbox ", ToString(id), " resumed successfully">>
      [] op = "cleanup" -> <<"Sandbox ", ToString(id), " cleaned up successfully">>
      [] op = "create" -> <<ToString(info[id])>>
      [] OTHER -> <<"JSON.stringify(result, null, 2)">>

\* The handler's steps change nothing of the managers.
Handled == UNCHANGED <<sandbox, task, calls, manager, connected, browser, output, tabs>>

\* A name without a case: the default branch throws.
CallUnknownTool(name) ==
    /\ response' = ToolError(<<"Unknown tool: ", name>>)
    /\ Handled

\* Arguments that the tool's schema rejects: Schema.parse throws a ZodError,
\* whose message is the JSON text of its issues.
CallRejected(name) ==
    /\ response' = ToolError(<<"JSON.stringify(issues, null, 2)", name>>)
    /\ Handled

\* get_sandbox: no await; the handler itself throws for an unknown id.
CallGetSandbox(sandboxId) ==
    /\ response' = IF getSandbox(sandboxId) = NoInfo
                     THEN ToolError(<<"Sandbox ", ToString(sandboxId), " not found">>)
                     ELSE ToolResult(<<ToString(getSandbox(sandboxId))>>)
    /\ Handled

\* list_sandboxes
CallListSandboxes ==
    /\ response' = ToolResult(<<ToString(listSandboxes)>>)
    /\ Handled

\* The handler after the await of the manager's promise: the return of the
\* case when it resolved, the catch block when it rejected.
Respond(r) ==
    /\ r \in InFlight
    /\ r.pc = "done"
    /\ task' = Drop(task, r)
    /\ response' = IF r.res \in Rejections
                     THEN ToolError(ErrorMessage(r.op, r.id, r.res))
                     ELSE ToolResult(SuccessText(r.op, r.id))
    /\ UNCHANGED <<sandbox, calls, manager, connected, browser, output, tabs>>

NextTools ==
    \/ \E name \in CallerNames, config \in CallerConfigs :
          CreateSandbox(DistinctId, name, config)
    \/ \E r \in InFlight : CreateAfterAllocate(r)
    \/ \E r \in InFlight : CreateAfterStart(r)
    \/ \E id \in CallerIds : ExecuteInSandbox(id)
    \/ \E r \in InFlight : ExecuteAfterExec(r)
    \/ \E r \in InFlight : ExecuteAfterExecStart(r)
    \/ \E r \in InFlight : ExecuteAfterStream(r)
    \/ \E r \in InFlight : ExecuteAfterInspect(r)
    \/ \E id \in CallerIds : PauseSandbox(id)
    \/ \E r \in InFlight : PauseAfterDriver(r)
    \/ \E id \in CallerIds : ResumeSandbox(id)
    \/ \E r \in InFlight : ResumeAfterDriver(r)
    \/ \E id \in CallerIds : CleanupSandbox(id)
    \/ \E r \in InFlight : CleanupAfterStop(r)
    \/ \E r \in InFlight : CleanupAfterRemove(r)
    \/ \E id \in CallerIds : GetSandboxStats(id)
    \/ \E r \in InFlight : StatsAfterDriver(r)
    \/ \E r \in InFlight : DriverAnswers(r)
    \/ \E name \in UnknownTools : CallUnknownTool(name)
    \/ \E name \in ParsingTools : CallRejected(name)
    \/ \E id \in CallerIds : CallGetSandbox(id)
    \/ CallListSandboxes
    \/ \E r \in InFlight : Respond(r)

SpecTools == Init /\ [][NextTools]_vars

-----------------------------------------------------------------------------
\* MCPSandboxServer.start, called once by main(), and the browser tools
\* that clients call once the server is connected to its transport.

\* start, from the call to its first await: sandboxManager.initialize() runs
\* up to its await of docker.ping, and start awaits its promise.
Start ==
    /\ calls = 0
    /\ Call
    /\ task' = Put(Put(task, Await("initialize", NoId, NoContainer, "ping")),
                   Await("start", NoId, NoContainer, "initialize"))
    /\ UNCHANGED <<sandboxes, info, nextId, container, timers, cleaned, stopCalls>>
    /\ UNCHANGED beyond

\* start after the await of initialize, whose promise i has settled.  When
\* it rejected, start rejects there, and main() logs and exits.  Otherwise
\* browserManager.initialize() starts the browser manager's scheduler, the
\* signal handlers are set and start awaits server.connect(transport).
StartAfterInitialize(r, i) ==
    /\ Awaiting(r, "start", "initialize")
    /\ i \in InFlight
    /\ i.op = "initialize"
    /\ i.pc = "done"
    /\ IF i.res = "ok"
         THEN /\ isInitialized' = TRUE
              /\ cleanupTimer' = (IF isInitialized THEN cleanupTimer ELSE TRUE)
              /\ task' = Put(Drop(Drop(task, r), i),
                             Await("start", NoId, NoContainer, "connect"))
         ELSE /\ task' = Put(Drop(Drop(task, r), i), Settled("start", NoId, "Failed"))
              /\ UNCHANGED <<isInitialized, cleanupTimer>>
    /\ UNCHANGED <<contexts, contextStatus, nextContext, idle, browsers, sweep>>
    /\ UNCHANGED <<sandbox, server, output, tabs, calls>>

\* start after server.connect(transport) on the stdio transport: resolve.
StartAfterConnect(r) ==
    /\ Awaiting(r, "start", "connect")
    /\ connected' = TRUE
    /\ task' = Become(r, Settled("start", NoId, "ok"))
    /\ UNCHANGED <<sandbox, manager, response, browser, output, tabs, calls>>

InitStart ==
    /\ Constructed(StaleIds)
    /\ stream = NoStream
    /\ manager = "BrowserSandboxManager"

NextStart ==
    \/ Start
    \/ \E r \in InFlight : InitializeAfterPing(r)
    \/ \E r \in InFlight : InitializeAfterInspect(r)
    \/ \E r \in InFlight : InitializeAfterPull(r)
    \/ \E r, i \in InFlight : StartAfterInitialize(r, i)
    \/ \E r \in InFlight : StartAfterConnect(r)
    \/ connected /\ CreateContext
    \/ \E r \in InFlight : CreateContextAfterLaunch(r)
    \/ \E r \in InFlight : CreateContextAfterNewContext(r)
    \/ connected /\ \E c \in CallerContexts : Navigate(c)
    \/ \E r \in InFlight : NavigateAfterNewPage(r)
    \/ \E r \in InFlight : NavigateAfterGoto(r)
    \/ connected /\ \E c \in CallerContexts : ListPages(c)
    \/ connected /\ \E c \in CallerContexts : CloseContext(c)
    \/ \E r \in InFlight : CloseContextAfterPage(r)
    \/ \E r \in InFlight : BrowserAnswers(r)
    \/ \E r \in InFlight : CloseContextAfterClose(r)
    \/ \E r \in InFlight : Return(r)

SpecStart == InitStart /\ [][NextStart]_vars

-----------------------------------------------------------------------------
\* The stream handlers of executeInSandbox.  A string is the sequence of its
\* bytes; every byte of the model is ASCII, one character of chunk.toString().

\* Bounds of the streams.
MaxWrites == 2    \* writes of the command to its standard output and standard error
MaxPayload == 2   \* bytes of one write
MaxChunks == 3    \* 'data' events the stream delivers

\* The engine's stream types, the length of a frame header, two payload bytes
\* ("a" and line feed) and the character of an undecodable byte.
StdoutTag == 1
StderrTag == 2
HeaderLen == 8
LetterA == 97
LineFeed == 10
Replacement == 65533

\* What a command writes: in order, to file descriptor fd, the bytes data.
Payloads == UNION { [1..n -> {LetterA, LineFeed}] : n \in 1..MaxPayload }
Writes == UNION { [1..n -> [fd : {StdoutTag, StderrTag}, data : Payloads]] : n \in 1..MaxWrites }

\* The argument of docker.createContainer.
CreateContainerOptions(sandboxId, defaultConfig) ==
    [name |-> <<"sandbox-", sandboxId>>,
     Image |-> defaultConfig.image,
     Cmd |-> <<"/bin/sh">>,
     Tty |-> TRUE,
     OpenStdin |-> TRUE,
     HostConfig |-> [Memory |-> ParseMemoryLimit(defaultConfig.memoryLimit),
                     NanoCpus |-> defaultConfig.cpuLimit * 1000000000,
                     AutoRemove |-> defaultConfig.autoRemove,
                     NetworkMode |-> "bridge"]]

\* The engine's frame of one write: the stream type, three zero bytes, the
\* payload's length as four bytes, the payload.
Frame(w) == <<w.fd, 0, 0, 0, 0, 0, 0, Len(w.data)>> \o w.data

\* The bytes of the exec stream: framed, or the bare output of both file
\* descriptors in the order written.
RECURSIVE Multiplexed(_)
Multiplexed(ws) == IF ws = << >> THEN << >> ELSE Frame(Head(ws)) \o Multiplexed(Tail(ws))
RECURSIVE Raw(_)
Raw(ws) == IF ws = << >> THEN << >> ELSE Head(ws).data \o Raw(Tail(ws))
Encode(ws, format) == IF format = "multiplexed" THEN Multiplexed(ws) ELSE Raw(ws)

\* The formats of the exec stream of a container.  For a container with a
\* terminal the engine sends the bare output; the exec itself is requested
\* without a terminal, for which an engine may frame the output all the same.
StreamFormats(tty) == IF tty THEN {"raw", "multiplexed"} ELSE {"multiplexed"}

\* The ways a stream delivers bytes as at most k non-empty chunks.
RECURSIVE Chunkings(_, _)
Chunkings(bytes, k) ==
    {<<bytes>>} \cup
    IF k <= 1 THEN {}
    ELSE UNION { { <<SubSeq(bytes, 1, i)>> \o rest :
                     rest \in Chunkings(SubSeq(bytes, i + 1, Len(bytes)), k - 1) } :
                 i \in 1..(Len(bytes) - 1) }

\* Buffer.toString() of ASCII bytes and of bytes that are no UTF-8 on their own.
toString(chunk) == [i \in 1..Len(chunk) |-> IF chunk[i] < 128 THEN chunk[i] ELSE Replacement]
\* String.substring(n)
Substring(data, n) == SubSeq(data, n + 1, Len(data))
\* String.trim(): line feed is the white space of the model.
RECURSIVE TrimStart(_)
TrimStart(data) ==
    IF data # << >> /\ Head(data) = LineFeed THEN TrimStart(Tail(data)) ELSE data
RECURSIVE TrimEnd(_)
TrimEnd(data) ==
    IF data # << >> /\ data[Len(data)] = LineFeed
      THEN TrimEnd(SubSeq(data, 1, Len(data) - 1)) ELSE data
Trim(data) == TrimEnd(TrimStart(data))

\* executeInSandbox after exec.start resolved with the stream of a running
\* sandbox of createSandbox: let stdout = '', let stderr = '', and the
\* handlers are attached.
InitDemux ==
    /\ Constructed(Ids)
    /\ manager = "SandboxManager"
    /\ \E ws \in Writes, code \in {0, 1} :
         LET tty == CreateContainerOptions(1, DefaultConfig).Tty
         IN  \E f \in StreamFormats(tty) :
               \E cs \in Chunkings(Encode(ws, f), MaxChunks) :
                  stream = [pc |-> "flowing", written |-> ws, tty |-> tty, format |-> f,
                            chunks |-> cs, exitCode |-> code]

\* stream.on('data')
StreamData ==
    /\ stream.pc = "flowing"
    /\ stream.chunks # << >>
    /\ LET chunk == Head(stream.chunks)
           data == toString(chunk)
       IN  IF chunk[1] = StdoutTag
             THEN stdout' = stdout \o Substring(data, HeaderLen) /\ stderr' = stderr
           ELSE IF chunk[1] = StderrTag
             THEN stderr' = stderr \o Substring(data, HeaderLen) /\ stdout' = stdout
           ELSE UNCHANGED <<stdout, stderr>>
    /\ stream' = [stream EXCEPT !.chunks = Tail(@)]
    /\ UNCHANGED <<sandbox, server, browser, tabs, task, calls>>

\* stream.on('end'), after exec.inspect answered: the promise resolves.
StreamEnd ==
    /\ stream.pc = "flowing"
    /\ stream.chunks = << >>
    /\ stream' = [stream EXCEPT !.pc = "resolved"]
    /\ UNCHANGED <<sandbox, server, browser, tabs, task, calls, stdout, stderr>>

\* inspectResult.ExitCode || 0
OrZero(code) == IF code = 0 THEN 0 ELSE code
\* The ExecuteResult the promise resolves with.
ExecuteResult ==
    [stdout |-> Trim(stdout), stderr |-> Trim(stderr), exitCode |-> OrZero(stream.exitCode)]

NextDemux == StreamData \/ StreamEnd
SpecDemux == InitDemux /\ [][NextDemux]_vars

-----------------------------------------------------------------------------
\* What a step does to the bag of calls.
Added(s) == CopiesIn(s, task') > CopiesIn(s, task)
Removed(r) == CopiesIn(r, task') < CopiesIn(r, task)
\* The step is a caller's call of method op on id, and s is the call.
Calls(s, op, id) ==
    /\ calls' # calls
    /\ Added(s)
    /\ s.op = op
    /\ s.id = id
\* The step leaves the registry and every SandboxInfo as they were.
RegistryUnchanged == sandboxes' = sandboxes /\ info' = info

\* C1: once a cleanupSandbox(id) has resolved, id is absent from the
\* registry (getSandbox, listSandboxes) in every later state.
C1_CleanedStaysAbsent == \A id \in cleaned : id \notin sandboxes

\* C2: a sandbox's status changes only along creating->running,
\* creating->error, running->paused, paused->running and (any)->stopped;
\* nothing leaves stopped and nothing puts a cleaned entry back.  (The step
\* that issues an id takes it to creating, or through creating to error.)
StatusEdges ==
    {<<"none", "creating">>, <<"none", "error">>, <<"creating", "running">>,
     <<"creating", "error">>, <<"running", "paused">>, <<"paused", "running">>}
      \cup { <<st, "stopped">> : st \in SandboxStatus \ {"stopped"} }
C2_StatusEdges ==
    [][\A id \in Ids :
          /\ info'[id].status # info[id].status
                => <<info[id].status, info'[id].status>> \in StatusEdges
          /\ (info[id].status = "stopped" /\ id \notin sandboxes)
                => id \notin sandboxes']_vars

\* C3: no driver call of executeInSandbox is in flight on a sandbox while a
\* cleanup of that sandbox is tearing its container down.
C3_NoExecDuringTeardown ==
    \A e \in InFlight, c \in InFlight :
        ~ /\ e.op = "execute" /\ e.pc # "done"
          /\ c.op = "cleanup" /\ c.pc \in {"stop", "remove"}
          /\ e.id = c.id

\* C4: over all cleanups of a sandbox (explicit or by its timer), the driver's
\* stop is issued at most once.
C4_StopAtMostOnce == \A id \in Ids : stopCalls[id] <= 1

\* C5: executeInSandbox on an id missing from the registry fails as not found,
\* on an entry whose status is not running fails as not running, in both cases
\* without a driver call and without a change of the registry; and every
\* driver call of an accepted execute is issued while the status is running.
C5_ExecuteOnlyWhileRunning ==
    [][\A s \in BagToSet(task') :
          /\ \A id \in Ids : Calls(s, "execute", id) /\ id \notin sandboxes
                => s = Settled("execute", id, "NotFound") /\ RegistryUnchanged
          /\ \A id \in sandboxes : Calls(s, "execute", id) /\ info[id].status # "running"
                => s = Settled("execute", id, "NotRunning") /\ RegistryUnchanged
          /\ (Added(s) /\ s.op = "execute" /\ s.pc \in {"exec", "execStart", "inspect"})
                => info[s.id].status = "running"]_vars

\* C6: pauseSandbox is rejected unless the status is running, resumeSandbox
\* unless it is paused; a rejected call issues no driver call and changes no
\* status; when the driver's pause or unpause fails, the call fails and the
\* status is unchanged as well.
C6_PauseResumeRejected ==
    [][/\ \A s \in BagToSet(task'), id \in Ids :
             /\ (Calls(s, "pause", id) /\ ~(id \in sandboxes /\ info[id].status = "running"))
                   => s.pc = "done" /\ s.res \in {"NotFound", "NotRunning"}
                        /\ RegistryUnchanged /\ container' = container
             /\ (Calls(s, "resume", id) /\ ~(id \in sandboxes /\ info[id].status = "paused"))
                   => s.pc = "done" /\ s.res \in {"NotFound", "NotPaused"}
                        /\ RegistryUnchanged /\ container' = container
       /\ \A r \in InFlight :
             (r.op \in {"pause", "resume"} /\ r.out = "fail" /\ Removed(r))
                => Added(Settled(r.op, r.id, "Failed")) /\ RegistryUnchanged]_vars
\* C6 witness: a pause whose driver call failed has been rejected, the sandbox
\* still running.
C6_Witness ==
    \E id \in sandboxes :
        /\ Settled("pause", id, "Failed") \in InFlight
        /\ info[id].status = "running"

\* C7: while a sandbox is paused, getSandboxStats and executeInSandbox both
\* fail and neither forwards a call to the driver.
C7_PausedRejectsStatsAndExecute ==
    [][\A s \in BagToSet(task'), id \in sandboxes :
          ((Calls(s, "stats", id) \/ Calls(s, "execute", id)) /\ info[id].status = "paused")
             => s.pc = "done" /\ s.res # "ok"]_vars

\* C8: with a healthy driver and no other call in flight on the sandbox, a
\* pause of a running sandbox leaves it paused and a resume of the paused
\* sandbox leaves it running, in the registry, with the handle and config it had.
Alone(r) == \A o \in InFlight : (o.id = r.id /\ o.pc # "done") => o = r
C8_PauseThenResume ==
    [][\A r \in InFlight :
          (r.op \in {"pause", "resume"} /\ r.out = "ok" /\ Alone(r) /\ Removed(r))
             => /\ Added(Settled(r.op, r.id, "ok"))
                /\ r.id \in sandboxes'
                /\ info'[r.id].status = (IF r.op = "pause" THEN "paused" ELSE "running")
                /\ info'[r.id].containerId = info[r.id].containerId
                /\ info'[r.id].config = info[r.id].config]_vars
\* C8 witness: a resume has resolved after a pause, the sandbox is running
\* again on its container.
C8_Witness ==
    \E id \in sandboxes :
        /\ Settled("resume", id, "ok") \in InFlight
        /\ info[id].status = "running"
        /\ container[info[id].containerId] = "running"

\* C9: when the driver has allocated and started the container, createSandbox
\* resolves with the entry running, its handle set, in the registry under the
\* returned id, and an executeInSandbox issued next is accepted.
C9_CreateThenExecute ==
    [][\A r \in InFlight :
          (r.op = "create" /\ r.pc = "start" /\ r.out = "ok" /\ Removed(r))
             => /\ Added(Settled("create", r.id, "ok"))
                /\ info'[r.id].status = "running"
                /\ info'[r.id].containerId = r.h /\ r.h # NoContainer
                /\ r.id \in sandboxes'
                /\ ExecuteAccepts(r.id)']_vars
\* C9 witness: an execute was accepted on a sandbox whose create resolved.
C9_Witness ==
    \E id \in sandboxes, e \in InFlight :
        /\ e.op = "execute" /\ e.id = id /\ e.pc = "exec"
        /\ Settled("create", id, "ok") \in InFlight

\* C10: when allocation or start fails, or the limits cannot be built,
\* createSandbox fails and leaves the entry in the registry with status error;
\* the entry stays so until a cleanup removes it.
C10_FailedCreateKeepsEntry ==
    [][/\ \A s \in BagToSet(task') :
             (Added(s) /\ s.op = "create" /\ s.pc = "done" /\ s.res = "Failed")
                => s.id \in sandboxes' /\ info'[s.id].status = "error"
       /\ \A r \in InFlight :
             (r.op = "create" /\ r.out = "fail" /\ Removed(r))
                => Added(Settled("create", r.id, "Failed"))
       /\ \A id \in sandboxes :
             info[id].status = "error"
                => \/ id \in sandboxes' /\ info'[id].status = "error"
                   \/ /\ id \notin sandboxes' /\ info'[id].status = "stopped"
                      /\ Added(Settled("cleanup", id, "ok"))]_vars
\* C10 witness: a create failed at the driver and its entry is listed with
\* status error.
C10_Witness ==
    \E id \in sandboxes :
        /\ Settled("create", id, "Failed") \in InFlight
        /\ getSandbox(id).status = "error"
        /\ container[id] \in {"none", "created"}
        /\ ParseMemoryLimit(info[id].config.memoryLimit) # ParseError

\* C11: provided every driver call eventually returns or fails, every entry
\* in status creating eventually leaves it (running, error, or removed).
Creating(id) == id \in sandboxes /\ info[id].status = "creating"
C11_CreatingEnds == \A id \in Ids : Creating(id) ~> ~Creating(id)
\* C11 witness: a create whose start the engine refused has resolved, the
\* entry no longer creating.
C11_Witness ==
    \E id \in sandboxes :
        /\ Settled("create", id, "Failed") \in InFlight
        /\ container[id] = "created"
        /\ ~Creating(id)

\* C12: cleanupSandbox on a registered id resolves and removes the entry even
\* when the driver's stop and remove both fail; no driver failure reaches the
\* caller.
C12_CleanupToleratesDriver ==
    [][/\ \A r \in InFlight :
             (r.op = "cleanup" /\ r.out = "fail" /\ Removed(r))
                => \/ /\ r.pc = "stop" /\ ~info[r.id].config.autoRemove
                      /\ Added(Await("cleanup", r.id, r.h, "remove"))
                   \/ /\ Added(Settled("cleanup", r.id, "ok"))
                      /\ r.id \notin sandboxes'
       /\ \A s \in BagToSet(task') :
             (Added(s) /\ s.op = "cleanup" /\ s.pc = "done" /\ s.res # "ok")
                => s.id \notin sandboxes /\ s.res = "NotFound"]_vars
\* C12 witness: a cleanup has resolved and removed the entry although the
\* container, created without AutoRemove, is still running: the engine
\* refused both the stop and the remove.
C12_Witness ==
    \E id \in cleaned :
        /\ Settled("cleanup", id, "ok") \in InFlight
        /\ id \notin sandboxes
        /\ ~info[id].config.autoRemove
        /\ info[id].containerId # NoContainer
        /\ container[info[id].containerId] = "running"

C14_StaleEventuallyRemoved ==
    \A id \in StaleIds :
        /\ (id \in sandboxes /\ id \in aged /\ intervals > 0) ~> (id \notin sandboxes)
        /\ (id \in Registered /\ id \in idle /\ cleanupTimer) ~> (id \notin Registered)

\* A step starts a sweep of the sandbox manager, of the browser manager.
StartsSandboxSweep ==
    /\ \A r \in InFlight : r.op # "cleanupStaleSandboxes"
    /\ \E r \in BagToSet(task') : r.op = "cleanupStaleSandboxes"
StartsContextSweep ==
    /\ sweep.pc = "none"
    /\ sweep'.pc = "close" \/ Added(Settled("cleanupStaleContexts", NoId, "ok"))
\* The cleanup of every stale sandbox is under way or done after the step.
EveryStaleSandboxTried ==
    \A id \in staleSandboxes :
        \/ Added(Await("cleanup/stale", id, info[id].containerId, "stop"))
        \/ id \in cleaned' /\ id \notin sandboxes'
\* After the step the browser sweep is closing one of the contexts `stale`
\* that is still registered, the others queued; it has ended when there is none.
ContextSweepGoesOn(stale) ==
    LET rest == { c \in stale : c \in Registered' }
    IN  IF rest = {}
          THEN sweep' = NoSweep /\ Added(Settled("cleanupStaleContexts", NoId, "ok"))
          ELSE /\ sweep'.pc = "close"
               /\ sweep'.contextId \in rest
               /\ sweep'.stale = stale \ {sweep'.contextId}

\* C15: a sweep attempts the cleanup or close of every entry that is stale at
\* its start, also after the close of another stale entry failed, and the
\* sweep itself does not fail.
C15_SweepTriesEveryStale ==
    [][/\ StartsSandboxSweep => EveryStaleSandboxTried
       /\ StartsContextSweep => ContextSweepGoesOn(Registered \cap idle)
       /\ (sweep.pc = "close" /\ sweep' # sweep) => ContextSweepGoesOn(sweep.stale)
       /\ \A s \in BagToSet(task') :
             s.op \in {"cleanupStaleSandboxes", "cleanupStaleContexts"} /\ s.pc = "done"
                => s.res = "ok"]_vars
\* C15 witness: the browser sweep is closing a stale context after the close
\* of another one failed.
C15_Witness ==
    /\ sweep.pc = "close"
    /\ sweep.warned # {}
    /\ sweep.contextId \in Registered \ sweep.warned

\* C16: a sweep starts the teardown of every stale entry without waiting for
\* the driver calls of another one: while it waits for the driver on one
\* entry, no other stale entry of the sweep waits for its turn.
C16_SweepDoesNotWait ==
    [][/\ StartsSandboxSweep => EveryStaleSandboxTried
       /\ sweep'.pc = "close" => sweep'.stale \cap Registered' = {}]_vars

\* A step calls shutdown.
CallsShutdown ==
    /\ calls' # calls
    /\ \A r \in InFlight : r.op # "shutdown"
    /\ \E r \in BagToSet(task') : r.op = "shutdown"
\* C17: shutdown invokes cleanupSandbox for every id registered when it is
\* called, does not fail, and when it resolves the registry is empty and no
\* stale-sweep interval is left running.
C17_ShutdownLeavesNothing ==
    [][/\ CallsShutdown =>
             \A id \in sandboxes :
                \/ Added(Await("cleanup/shutdown", id, info[id].containerId, "stop"))
                \/ id \in cleaned' /\ id \notin sandboxes'
       /\ \A s \in BagToSet(task') :
             (Added(s) /\ s.op = "shutdown" /\ s.pc = "done")
                => s.res = "ok" /\ sandboxes' = {} /\ intervals' = 0]_vars

\* The bytes the command wrote to file descriptor fd.
RECURSIVE Written(_, _)
Written(ws, fd) ==
    IF ws = << >> THEN << >>
    ELSE (IF Head(ws).fd = fd THEN Head(ws).data ELSE << >>) \o Written(Tail(ws), fd)

\* C18: for every multiplexed stream built from frames and every way of
\* cutting it into delivered chunks, the stdout and stderr accumulated by
\* executeInSandbox are the concatenation of the stdout payloads and of the
\* stderr payloads, no byte missing and no header byte included.
C18_DemuxAnyChunking ==
    (stream.format = "multiplexed" /\ stream.pc = "resolved") =>
        /\ stdout = Written(stream.written, StdoutTag)
        /\ stderr = Written(stream.written, StderrTag)

\* C19: executeInSandbox on a sandbox created by createSandbox, for a command
\* that writes X to standard output and Y to standard error and exits with
\* code 0, returns stdout = X, stderr = Y (white space at the ends trimmed)
\* and exitCode = 0.
C19_ExecuteReturnsOutput ==
    (stream.pc = "resolved" /\ stream.exitCode = 0) =>
        /\ ExecuteResult.stdout = Trim(Written(stream.written, StdoutTag))
        /\ ExecuteResult.stderr = Trim(Written(stream.written, StderrTag))
        /\ ExecuteResult.exitCode = 0

\* C20: every allocation request that createSandbox sends to the driver has
\* the interactive-terminal flag off.
C20_AllocatesWithoutTerminal ==
    \A r \in InFlight :
        Awaiting(r, "create", "createContainer") =>
            ~CreateContainerOptions(r.id, info[r.id].config).Tty

\* The page of the latest navigate call among the pages of context c: page
\* ids are issued in the order of the navigate calls.
LatestPage(c) == CHOOSE p \in PagesOf(c) : \A q \in PagesOf(c) : q <= p

\* C21: getPageContent, screenshot, generatePDF and executeJavaScript called
\* without a page id operate on the page of the latest navigate call among
\* the context's pages, whatever the order in which overlapping navigations
\* were started and completed.
C21_DefaultPageIsLatest ==
    \A c \in Registered :
        (getManagedContext(c) = "ok" /\ pages[c] # << >>) =>
            getPage(c, NoPage) = LatestPage(c)

\* C22: a navigate that fails because the navigation exceeded its timeout
\* throws with code NAVIGATION_TIMEOUT, one that fails in the engine for any
\* other reason throws with NAVIGATION_FAILED, and neither returns a page id.
C22_NavigateErrorCodes ==
    [][\A s \in BagToSet(task') :
          (Added(s) /\ s.op = "navigate" /\ s.pc = "done" /\ s.out # "none") =>
              /\ s.out = "timeout" => s.res = "NAVIGATION_TIMEOUT"
              /\ s.out = "other" => s.res = "NAVIGATION_FAILED"
              /\ s.h = NoPage]_vars

\* C23: executeJavaScript returns {success: false, error} whenever the
\* engine's evaluation of the script fails and {success: true, result} when it
\* succeeds; it throws only context-not-found and page-not-found, and those
\* before it asks the engine for anything.
C23_ScriptFailureIsResult ==
    [][\A s \in BagToSet(task') :
          (Added(s) /\ s.op = "executeJavaScript" /\ s.pc = "done") =>
              /\ s.res \in {"success: true", "success: false",
                            "CONTEXT_NOT_FOUND", "PAGE_NOT_FOUND"}
              /\ s.out = "page" <=> s.res = "success: false"
              /\ s.res \in {"CONTEXT_NOT_FOUND", "PAGE_NOT_FOUND"} => calls' # calls]_vars
\* An evaluation failed and the call resolved with success: false.
C23_Witness ==
    \E s \in InFlight :
        s.op = "executeJavaScript" /\ s.res = "success: false" /\ s.out = "page"

\* C24: closeContext issues page.close() for every page of the context's page
\* map, one after the other, and context.close() after the last of them has
\* answered; a page that fails to close stops neither the remaining page
\* closes nor the close of the context.
C24_ClosesPagesThenContext ==
    [][/\ \A s \in BagToSet(task') :
             (Added(s) /\ s.op \in CloseOps /\ s.pc = "context.close" /\ s.out = "pending") =>
                 PagesOf(s.id) \subseteq s.seen
       /\ \A r \in InFlight :
             (Removed(r) /\ r.op \in CloseOps /\ r.pc = "page.close") =>
                 \E s \in BagToSet(task') :
                     /\ Added(s)
                     /\ s.op = r.op /\ s.id = r.id
                     /\ s.pc \in {"page.close", "context.close"}
                     /\ r.seen \subseteq s.seen
                     /\ s.pc = "page.close" => s.h \notin r.seen]_vars
\* A page failed to close, and the closeContext has gone on to context.close().
C24_Witness ==
    \E s \in InFlight :
        /\ s.op = "closeContext" /\ s.pc = "context.close"
        /\ s.res = "warned" /\ Cardinality(s.seen) = 2

\* The methods that address a context by id.
ContextMethods ==
    PageMethods \cup {"navigate", "listPages", "closePage", "closeContext"}

\* C25: once a closeContext(id) has completed, id is absent from
\* listContexts/getContext, and every later navigate, getPageContent,
\* screenshot, generatePDF, executeJavaScript, listPages, closePage or
\* closeContext on id fails with CONTEXT_NOT_FOUND, also when a navigate on the
\* context was in flight while the close ran.
C25_ClosedContextIsGone ==
    [][\A c \in DOMAIN contextStatus :
          /\ contextStatus'[c] = "closed" => \A i \in DOMAIN contexts' : contexts'[i] # c
          /\ contextStatus[c] = "closed" =>
                \A s \in BagToSet(task') :
                    (calls' # calls /\ Added(s) /\ s.id = c /\ s.op \in ContextMethods) =>
                        s.pc = "done" /\ s.res = "CONTEXT_NOT_FOUND"]_vars
\* A navigate that was in flight during the close is in flight still, and a
\* call made on the closed context after the close has failed.
C25_Witness ==
    \E c \in DOMAIN contextStatus :
        /\ contextStatus[c] = "closed"
        /\ \E r \in InFlight : r.op = "navigate" /\ r.id = c /\ r.pc = "goto"
        /\ \E s \in InFlight :
              s.op \in ContextMethods /\ s.id = c /\ s.res = "CONTEXT_NOT_FOUND"

\* Call s of shutdown is closing the first of the context ids `ids`, with the
\* others still to come, or the engine when there is none.
ShutdownGoesOn(s, ids) ==
    /\ s.op = "shutdown"
    /\ IF ids = << >>
         THEN s.pc \in {"browser.close", "done"}
         ELSE s.id = Head(ids) /\ s.todo = Tail(ids) /\ s.pc \in {"page.close", "context.close"}

\* C26: shutdown of the browser manager attempts to close every registered
\* context before it closes a cached engine, goes on after a close that
\* failed, and when it resolves the engine cache is empty, the cleanup timer
\* is stopped and the manager is uninitialized.
C26_ShutdownClosesAll ==
    [][/\ \A s \in BagToSet(task') :
             (calls' # calls /\ Added(s) /\ s.op = "shutdown") => ShutdownGoesOn(s, contexts)
       /\ \A r \in InFlight :
             (Removed(r) /\ Answered(r, "shutdown", "context.close")) =>
                 \E s \in BagToSet(task') :
                     /\ Added(s)
                     /\ ShutdownGoesOn(s, SelectSeq(r.todo, LAMBDA c : c \in Registered))
       /\ \A s \in BagToSet(task') :
             (Added(s) /\ s.op = "shutdown" /\ s.pc = "done") =>
                 /\ s.res = "ok"
                 /\ browsers' = {}
                 /\ ~cleanupTimer'
                 /\ ~isInitialized']_vars

\* C27: no engine is launched while a connected engine of the type is cached
\* or being launched: overlapping createContext calls share one engine.
C27_OneEnginePerType ==
    [][\A s \in BagToSet(task') :
          (Added(s) /\ s.op = "createContext" /\ s.pc = "launch") =>
              /\ "chromium" \notin browsers
              /\ \A r \in InFlight : ~(r.op = "createContext" /\ r.pc = "launch")]_vars

\* C28: every operation that addresses a context by id and is let through to
\* it (navigate, getPageContent, screenshot, generatePDF, executeJavaScript,
\* listPages, closePage) sets the context's lastAccessedAt to the current
\* time, so that the next sweep does not find the context stale.
C28_OperationsTouch ==
    [][\A s \in BagToSet(task') :
          /\ (/\ calls' # calls /\ Added(s)
              /\ s.op \in PageMethods \cup {"listPages", "closePage"}
              /\ s.res \notin {"CONTEXT_NOT_FOUND", "PAGE_NOT_FOUND"}) => s.id \notin idle'
          /\ (Added(s) /\ s.op = "navigate" /\ s.pc = "goto") => s.id \notin idle']_vars

\* C29: a sandbox whose status is running or paused has its driver handle
\* (containerId) set, and a handle that is set is never changed or cleared.
C29_HandleSetOnce ==
    [][\A id \in DOMAIN info :
          /\ info'[id].status \in {"running", "paused"} =>
                info'[id].containerId # NoContainer
          /\ info[id].containerId # NoContainer =>
                info'[id].containerId = info[id].containerId]_vars
\* A sandbox that was paused, resumed and cleaned up keeps its handle.
C29_Witness ==
    \E id \in DOMAIN info :
        /\ info[id].status = "stopped"
        /\ info[id].containerId = id
        /\ id \in cleaned

\* C30: every registry entry with status running (container) or active
\* (browser) has a live resource in the driver: a container that is started
\* and neither stopped nor removed, a context the engine holds open.
C30_RunningHasLiveResource ==
    /\ \A id \in sandboxes :
          info[id].status = "running" =>
              /\ info[id].containerId # NoContainer
              /\ container[info[id].containerId] \in {"running", "paused"}
    /\ \A c \in Registered :
          contextStatus[c] = "active" => c \in open

\* C31: no id that createSandbox returns equals an id the manager issued
\* earlier, so that a create never overwrites a registry entry: the entry a
\* createSandbox call sets was never set before.
C31_IdsNeverReused ==
    [][\A s \in InFlight' :
          \A id \in DOMAIN info :
              Calls(s, "create", id) => info[id] = NoInfo]_vars

\* The ids of the calls that a step starts, continues or ends.
Acting ==
    { r.id : r \in { x \in InFlight \cup InFlight' :
                        CopiesIn(x, task') # CopiesIn(x, task) } }
\* C32: an operation on one sandbox id changes the registry entry, the status,
\* the driver handle and the container of no other id, and every driver call
\* it issues goes to its own handle; likewise a navigate, a page operation or
\* a closeContext on one context changes no other context and addresses the
\* pages of its own context only.
C32_OtherEntriesUntouched ==
    [][task' # task =>
          /\ \A id \in DOMAIN info \ Acting :
                /\ info'[id] = info[id]
                /\ (id \in sandboxes') = (id \in sandboxes)
                /\ container'[id] = container[id]
          /\ \A s \in InFlight' :
                (manager = "SandboxManager" /\ Added(s))
                    => \/ s.h = NoContainer
                       \/ s.op = "create" /\ s.h = s.id
                       \/ s.op # "create" /\ s.h = info[s.id].containerId
          /\ \A c \in DOMAIN contextStatus \ Acting :
                /\ contextStatus'[c] = contextStatus[c]
                /\ (c \in Registered') = (c \in Registered)
                /\ pages'[c] = pages[c]
                /\ (c \in open') = (c \in open)
                /\ (c \in idle') = (c \in idle)
          /\ \A s \in InFlight' :
                (Added(s) /\ s.pc \in {"page", "page.close"} /\ s.h # NoPage)
                    => s.h \in PagesOf(s.id)]_vars
\* One sandbox was cleaned up while another one is registered and running.
C32_Witness ==
    \E a, b \in DOMAIN info :
        /\ a # b
        /\ a \in cleaned
        /\ a \notin sandboxes
        /\ b \in sandboxes
        /\ info[b].status = "running"
        /\ container[b] = "running"

\* The documented defaults overridden by the fields of config.
Documented(config) ==
    [f \in {"image", "memoryLimit", "cpuLimit", "timeout", "autoRemove"} \cup DOMAIN config |->
        IF f \in DOMAIN config THEN config[f]
        ELSE CASE f = "image" -> <<"node:20-alpine">>
               [] f = "memoryLimit" -> <<"5", "1", "2", "m">>
               [] f = "cpuLimit" -> 1
               [] f = "timeout" -> 300000
               [] f = "autoRemove" -> TRUE]
\* C33: the config stored by createSandbox is the documented defaults
\* overridden by exactly the fields the caller supplied, and no later step
\* (execute, pause, resume, stats, sweep) changes the id, name, createdAt or
\* config of an entry.
C33_ConfigMergedOnceThenFixed ==
    [][/\ \A name \in CallerNames, config \in CallerConfigs :
             CreateSandbox(DistinctId, name, config) =>
                 /\ info'[DistinctId].config = Documented(config)
                 /\ info'[DistinctId].name = name
                 /\ info'[DistinctId].id = DistinctId
       /\ \A id \in DOMAIN info :
             info[id] # NoInfo =>
                 /\ info'[id].id = info[id].id
                 /\ info'[id].name = info[id].name
                 /\ info'[id].createdAt = info[id].createdAt
                 /\ info'[id].config = info[id].config]_vars
\* A sandbox created with one field supplied was paused by a caller, and
\* its config holds that field and the defaults of the others.
C33_Witness ==
    \E id \in sandboxes :
        /\ info[id].status = "paused"
        /\ info[id].config.autoRemove = FALSE
        /\ info[id].config.timeout = 300000
        /\ info[id].config.image = <<"node:20-alpine">>

\* The handler's step answers with isError and the text `Error: <message>`.
AnswersError(message) ==
    /\ response'.isError = TRUE
    /\ response'.text = <<"Error: ">> \o message
\* C34: every tool invocation that fails (a name without a case, arguments
\* the schema rejects, an Error thrown by the manager, get_sandbox for an id
\* not in the registry) is answered with a result whose isError is true and
\* whose text is 'Error: <message>'.
C34_FailuresAreErrorResults ==
    [][/\ \A name \in UnknownTools :
             CallUnknownTool(name) => AnswersError(<<"Unknown tool: ", name>>)
       /\ \A name \in ParsingTools :
             CallRejected(name) =>
                 /\ response'.isError = TRUE
                 /\ Head(response'.text) = "Error: "
       /\ \A id \in DOMAIN info :
             (CallGetSandbox(id) /\ id \notin sandboxes) =>
                 AnswersError(<<"Sandbox ", ToString(id), " not found">>)
       /\ \A r \in InFlight :
             (Removed(r) /\ r.pc = "done" /\ r.res \in Rejections) =>
                 AnswersError(ErrorMessage(r.op, r.id, r.res))]_vars
\* The manager threw for a resumeSandbox of a sandbox that is not paused, and
\* the handler answered.
C34_Witness ==
    /\ response.isError = TRUE
    /\ response.text = <<"Error: ", "Sandbox ", "1", " is not paused">>
    /\ 1 \in sandboxes

\* C35: the container engine is optional: start() completes also when the
\* engine is not reachable, and the fetch, extraction and browser tools are
\* callable afterwards.  A start() whose promise has settled has resolved,
\* with the server connected to its transport.
C35_StartsWithoutEngine ==
    \A r \in InFlight :
        (r.op = "start" /\ r.pc = "done") => (r.res = "ok" /\ connected)

\* The step continues or ends a cleanupSandbox call on id that awaited the
\* driver call pc, which the driver has answered.
CleanupAnswered(id, pc) ==
    \E r \in InFlight :
        /\ Removed(r)
        /\ r.op = "cleanup"
        /\ r.id = id
        /\ r.pc = pc
        /\ r.out \in {"ok", "fail"}
\* C36: cleanupSandbox on an entry with a driver handle issues stop first,
\* issues remove only after the stop attempt and only when the stored config
\* has autoRemove false, and sets status stopped and deletes the entry only
\* after these attempts; on an entry without a handle it issues no driver
\* call and deletes the entry at once.
C36_StopThenRemoveThenDelete ==
    [][/\ \A s \in InFlight' :
             (Added(s) /\ s.op = "cleanup" /\ s.pc = "stop" /\ s.out = "pending") =>
                 /\ ~(\E r \in InFlight : Removed(r))
                 /\ info[s.id].containerId # NoContainer
                 /\ s.h = info[s.id].containerId
       /\ \A s \in InFlight' :
             (Added(s) /\ s.op = "cleanup" /\ s.pc = "remove" /\ s.out = "pending") =>
                 /\ CleanupAnswered(s.id, "stop")
                 /\ info[s.id].config.autoRemove = FALSE
       /\ \A id \in DOMAIN info :
             (\/ id \in sandboxes /\ id \notin sandboxes'
              \/ info[id].status # "stopped" /\ info'[id].status = "stopped") =>
                 /\ Added(Settled("cleanup", id, "ok"))
                 /\ id \notin sandboxes'
                 /\ info'[id].status = "stopped"
                 /\ \/ CleanupAnswered(id, "remove")
                    \/ CleanupAnswered(id, "stop") /\ info[id].config.autoRemove
                    \/ /\ info[id].containerId = NoContainer
                       /\ ~(\E r \in InFlight : Removed(r))
       /\ \A id \in sandboxes :
             (/\ info[id].containerId = NoContainer
              /\ \E s \in InFlight' : Added(s) /\ s.op = "cleanup" /\ s.id = id) =>
                 /\ Added(Settled("cleanup", id, "ok"))
                 /\ id \notin sandboxes'
                 /\ container' = container]_vars
\* A sandbox created without AutoRemove was cleaned up: the engine stopped and
\* removed its container, and the entry is stopped and gone.
C36_Witness ==
    \E id \in cleaned :
        /\ info[id].config.autoRemove = FALSE
        /\ container[id] = "removed"
        /\ info[id].status = "stopped"
        /\ id \notin sandboxes

\* C37: closeContext on a registered context removes the entry even when the
\* engine's close of the context fails: the failure is swallowed, the call
\* resolves and the entry does not stay registered.
C37_CloseContextSwallowsFailure ==
    [][\A r \in InFlight :
          (/\ Removed(r)
           /\ r.op = "closeContext"
           /\ r.pc = "context.close"
           /\ r.out = "fail"
           /\ r.id \in Registered) =>
              /\ r.id \notin Registered'
              /\ Added(Settled("closeContext", r.id, "ok"))]_vars

\* C38: no entry of the sandbox registry has status stopped and no entry of
\* the context registry has status closed, so that getSandbox, listSandboxes,
\* getContext and listContexts never return a stopped or closed entry.
C38_NoStoppedEntryRegistered ==
    /\ \A id \in sandboxes : info[id].status # "stopped"
    /\ \A info_ \in listSandboxes : info_.status # "stopped"
    /\ \A c \in Registered : contextStatus[c] # "closed"
\* A cleanupSandbox has resolved for an id that a createSandbox still in
\* flight then put back into the registry.
C38_Witness ==
    \E id \in cleaned :
        /\ id \in sandboxes
        /\ info[id].status \in {"running", "error"}

\* C39: a container the driver allocated for a createSandbox call is recorded
\* as the containerId of that call's registry entry or the driver has removed
\* it: once the call has settled, and no cleanupSandbox has acted on its id,
\* no allocated container is left without an entry that names it.
C39_AllocatedIsRecordedOrRemoved ==
    \A id \in Ids :
        (/\ \E res \in {"ok", "Failed"} : Settled("create", id, res) \in InFlight
         /\ id \notin cleaned
         /\ \A r \in InFlight : r.op = "cleanup" => r.id # id
         /\ container[id] \notin {"none", "removed"})
            => /\ id \in sandboxes
               /\ info[id].containerId = id

\* C40: every page the engine created for a navigate call is stored in the
\* context's page map under the page id of that call, or has been closed: a
\* page the engine holds open is a key of its context's page map, unless the
\* navigate that created it still awaits page.goto.
C40_CreatedPageIsStoredOrClosed ==
    \A q \in openPages :
        \/ q[2] \in PagesOf(q[1])
        \/ \E r \in InFlight : r.op = "navigate" /\ r.pc = "goto" /\ r.id = q[1] /\ r.h = q[2]

====
